---- MODULE Spec2Model ----
(***************************************************************************)
(* Model of the relay's registry path: PUT /beacon (new_beacon), the       *)
(* storage functions it calls, fan-out (DbRelay::send), the admin follow   *)
(* action (DbRelay::follow) and the inbound Follow handler.                *)
(*                                                                         *)
(* Strings are modelled as sequences of tokens (a token is an atom of the  *)
(* string; the empty sequence is the empty string), so that string prefix, *)
(* concatenation and equality are those of the code.  The apps, relays,    *)
(* followers and activities tables are sequences of rows in insertion      *)
(* order.  Every awaited storage or network call of a handler is one step. *)
(***************************************************************************)
EXTENDS Integers, Sequences, FiniteSets, TLC

\* ------------------------------------------------------------------ bounds
\* Requests (PUT /beacon or admin follow) started in one behaviour.
MaxRequests == 2
\* Storage / delivery failures injected in one behaviour.
MaxFailures == 1
\* Inbound Follow activities received in one behaviour.
MaxInbound == 2
\* Ownership, admin and inbox requests served in one behaviour.
MaxOwnerOps == 3
\* The heartbeats of the presence specification, and the last second of its clock.
MaxBeats == 3
MaxClock == 11
\* The events the broadcast channel retains, and the keep-alive comments a
\* subscriber's stream yields.
ChannelCapacity == 1
MaxPings == 1
\* The GET /world/{id_or_slug} requests served next to the owner's requests.
MaxWorldReads == 1

\* The request handlers that may run concurrently.
Handlers == {"h1", "h2"}

\* ------------------------------------------------------------ string atoms
Schemes == {"https://", "http://"}
HostTok == {"www.", "x.com", "evil.com"}
PathTok == {"/", "/app", "2"}

IsPrefix(p, s) == Len(p) <= Len(s) /\ SubSeq(s, 1, Len(p)) = p

Last(s) == s[Len(s)]

\* format!("{}", n) for a small non-negative integer: its decimal digits.
Digit(d) == CASE d = 0 -> "0" [] d = 1 -> "1" [] d = 2 -> "2" [] d = 3 -> "3"
              [] d = 4 -> "4" [] d = 5 -> "5" [] d = 6 -> "6" [] d = 7 -> "7"
              [] d = 8 -> "8" [] OTHER -> "9"

RECURSIVE ToDigits(_)
ToDigits(n) == IF n < 10 THEN <<Digit(n)>>
               ELSE Append(ToDigits(n \div 10), Digit(n % 10))

\* --------------------------------------------------------------- base url
\* Url::parse: a relative url (no scheme) does not parse.
UrlParses(url) == url # <<>> /\ Head(url) \in Schemes

host_str(url) == SelectSeq(url, LAMBDA t : t \in HostTok)

path(url) == LET p == SelectSeq(url, LAMBDA t : t \in PathTok)
             IN  IF p = <<>> THEN <<"/">> ELSE p

normalize_app_url(url) ==
    IF url = <<>> \/ Head(url) \notin Schemes THEN <<"https://">> \o url ELSE url

\* The tuple <<>> stands for None.
get_base_url(url) ==
    LET normalized == normalize_app_url(url)
    IN  IF host_str(normalized) = <<>> THEN <<>>
        ELSE <<Head(normalized)>> \o host_str(normalized)
             \o (IF path(normalized) # <<"/">> THEN path(normalized) ELSE <<>>)

RECURSIVE trim_www(_)
trim_www(host) ==
    IF host # <<>> /\ Head(host) = "www." THEN trim_www(Tail(host)) ELSE host

\* ------------------------------------------------------------------ slugs
\* Names are sequences of characters.
Alnum == {"c", "w", "1", "2"}

Lower(c) == CASE c = "C" -> "c" [] c = "W" -> "w" [] OTHER -> c

\* slug::slugify: lowercase, every run of other characters becomes one "-",
\* no leading or trailing "-".
RECURSIVE slugify_from(_, _, _)
slugify_from(name, i, acc) ==
    IF i > Len(name) THEN
        IF acc # <<>> /\ Last(acc) = "-" THEN SubSeq(acc, 1, Len(acc) - 1) ELSE acc
    ELSE IF Lower(name[i]) \in Alnum THEN
        slugify_from(name, i + 1, Append(acc, Lower(name[i])))
    ELSE IF acc = <<>> \/ Last(acc) = "-" THEN slugify_from(name, i + 1, acc)
    ELSE slugify_from(name, i + 1, Append(acc, "-"))

slugify(name) == slugify_from(name, 1, <<>>)

generate_slug(name) ==
    IF slugify(name) = <<>> THEN <<"world">> ELSE slugify(name)

\* Upper end (exclusive) of the numbered probes in generate_unique_slug.
SlugProbeEnd == 1000

\* A variant of slug_candidate that numbers the second candidate 1.
slug_candidate_from_one(name, i) ==
    IF i = 1 THEN generate_slug(name)
    ELSE generate_slug(name) \o <<"-">> \o ToDigits(i - 1)

\* The i-th candidate of generate_unique_slug: the base slug, then base-2, ...
slug_candidate(name, i) ==
    IF i = 1 THEN generate_slug(name)
    ELSE generate_slug(name) \o <<"-">> \o ToDigits(i)

\* ----------------------------------------------------------------- inputs
U1 == <<"https://", "x.com", "/app", "?s=1">>
U2 == <<"https://", "x.com", "/app", "?s=2">>
U3 == <<"https://", "x.com", "/app", "2">>
U4 == <<"x.com", "/app">>
U5 == <<"x.com", "/app", "?s=1">>
SubmitUrls == {U1, U2, U3, U4}

NameA == <<"C", " ", "W">>
NameB == <<"c", "-", "w">>
Names == {NameA, NameB}

\* image: None is <<>>; a remote url; an inline payload that decodes; one that
\* does not.
NoImage == <<>>
RemoteImage == <<"https://", "cdn.com", "/i.png">>
InlineGood == <<"data:", "image/png;base64,", "AAAA">>
InlineBad == <<"data:", "image/png;base64">>
Images == {NoImage, RemoteImage, InlineGood, InlineBad}

\* The Origin header: <<>> is no header.
NoOrigin == <<>>
Origins == {NoOrigin, <<"https://", "www.", "x.com">>, <<"https://", "evil.com">>}

\* BeaconPayload; adult is "none" | "true" | "false" (Option<bool>), tags is
\* <<>> (None) or a string.
Payloads ==
    [url : SubmitUrls, name : Names, description : {<<"d">>}, active : {TRUE},
     image : {NoImage, RemoteImage}, adult : {"none"}, tags : {<<>>}]

\* The submissions of the sequential specification.
SeqPayloads ==
    [url : SubmitUrls \cup {U5}, name : Names, description : {<<"d">>},
     active : {TRUE}, image : Images, adult : {"none"}, tags : {<<>>}]

\* The submissions of the Origin guard's specification.
OriginPayloads ==
    [url : {U1, U4}, name : Names, description : {<<"d">>}, active : {TRUE},
     image : {NoImage}, adult : {"none"}, tags : {<<>>}]

\* The submissions of the fan-out specification.
FanoutPayloads ==
    [url : {U1}, name : Names, description : {<<"d">>}, active : {TRUE},
     image : {NoImage}, adult : {"none"}, tags : {<<>>}]

\* Remote actors that may send a Follow, and the actors the admin may follow.
Peers == {"peerA", "peerB"}
FollowPeers == {"peerA"}

\* The local system actor's identity (DOMAIN), protocol + domain of images.
Domain == "relay"

\* ------------------------------------------------------------------ state
VARIABLES
    apps,        \* table apps: rows in insertion order
    activities,  \* table activities (the ledger)
    relays,      \* table relays; row 1 is the local system actor (id 0)
    followers,   \* table followers: (relay_id, follower_id) rows
    files,       \* images/ directory: name -> content
    hs,          \* per handler: position and locals of the request it serves
    done,        \* the answered requests, in the order of their answers
    outgoing,    \* activities handed to send, in order: number and kind
    started,     \* requests started so far
    failures,    \* failures injected so far
    inbound,     \* inbound Follow activities received so far
    sessions,    \* AppState.sessions: literal url -> list of (session_id, timestamp)
    events,      \* NewSessionEvents sent on new_session_tx, in order
    now,         \* the clock: whole seconds (unix_timestamp)
    ms,          \* the clock: milliseconds into the second
    lock,        \* per handler: the guard on AppState.sessions it holds
    poisoned,    \* the sessions lock is poisoned
    rx,          \* the subscriber of GET /events/sessions
    tx_open      \* new_session_tx has not been dropped

vars == <<apps, activities, relays, followers, files, hs, done, outgoing, started,
          failures, inbound, sessions, events, now, ms, lock, poisoned, rx, tx_open>>

NoApp == [id |-> 0]
NoSlug == <<>>
NoCode == <<>>

Idle ==
    [pc |-> "idle", kind |-> "none", payload |-> [url |-> <<>>], origin |-> <<>>,
     apps_count |-> 0, activities_count |-> 0, app |-> NoApp, fields |-> <<>>,
     image_url |-> <<>>, slug_i |-> 1, slug |-> <<>>, activity |-> [kind |-> "none", n |-> 0],
     recipients |-> <<>>, attempts |-> <<>>, path |-> "none", resp |-> 0,
     effects |-> <<>>, inboxes |-> <<>>, ticket |-> 0, seen |-> 0, last |-> 0,
     delivered |-> 0]

SystemUser == [id |-> 0, ap_id |-> <<Domain>>, inbox |-> <<Domain, "/inbox">>]

\* No client is subscribed to GET /events/sessions.
NoSubscriber == [state |-> "none", cursor |-> 0, got |-> <<>>, lagged |-> 0, pings |-> 0]

Init ==
    /\ apps = <<>>
    /\ activities = <<>>
    /\ relays = <<SystemUser>>
    /\ followers = <<>>
    /\ files = {}
    /\ hs = [h \in Handlers |-> Idle]
    /\ done = <<>>
    /\ outgoing = <<>>
    /\ started = 0
    /\ failures = 0
    /\ inbound = 0
    /\ sessions = <<>>
    /\ events = <<>>
    /\ now = 0
    /\ ms = 0
    /\ lock = [h \in Handlers |-> "none"]
    /\ poisoned = FALSE
    /\ rx = NoSubscriber
    /\ tx_open = TRUE

\* A storage or network call may fail while the failure budget lasts.
MayFail == failures < MaxFailures

\* ---------------------------------------------------------------- storage
\* SELECT * FROM apps WHERE url LIKE base_url% ORDER BY id ASC LIMIT 1
get_app_by_base_url(base_url) ==
    LET hit == {i \in DOMAIN apps : IsPrefix(base_url, apps[i].url)}
    IN  IF hit = {} THEN NoApp
        ELSE apps[CHOOSE i \in hit : \A j \in hit : apps[i].id <= apps[j].id]

\* SELECT COUNT(*) FROM apps
get_apps_count == Len(apps)

\* SELECT COUNT(*) FROM activities
get_activities_count == Len(activities)

\* The id the apps table's sequence gives the next inserted row.
next_app_id == Len(apps) + 1

\* INSERT INTO apps (...)
create_app(ap_id, url, name, description, is_active, image_url, is_adult, tags) ==
    Append(apps, [id |-> next_app_id, ap_id |-> ap_id, url |-> url, name |-> name,
                  description |-> description, active |-> is_active,
                  image |-> image_url, adult |-> is_adult, tags |-> tags,
                  slug |-> NoSlug, visible |-> TRUE, verification_code |-> NoCode,
                  verified |-> FALSE])

\* A variant of update_app that also rewrites the identity.
update_app_rekeying(url, name, description, is_active, image_url, is_adult, tags) ==
    [i \in DOMAIN apps |->
        IF apps[i].url = url
        THEN [apps[i] EXCEPT !.name = name, !.description = description,
                             !.active = is_active, !.image = image_url,
                             !.adult = is_adult, !.tags = tags,
                             !.ap_id = <<"relay", "/beacon/", "9">>]
        ELSE apps[i]]

\* UPDATE apps SET ... WHERE url = $7
update_app(url, name, description, is_active, image_url, is_adult, tags) ==
    [i \in DOMAIN apps |->
        IF apps[i].url = url
        THEN [apps[i] EXCEPT !.name = name, !.description = description,
                             !.active = is_active, !.image = image_url,
                             !.adult = is_adult, !.tags = tags]
        ELSE apps[i]]

\* Whether a row has the slug.
slug_exists(slug) == \E i \in DOMAIN apps : apps[i].slug = slug

\* Sets the slug of the row with the id.
set_app_slug(id, slug) ==
    [i \in DOMAIN apps |->
        IF apps[i].id = id THEN [apps[i] EXCEPT !.slug = slug] ELSE apps[i]]

\* INSERT INTO activities (activitypub_id, actor, obj, kind)
create_activity(activitypub_id, actor, obj, kind) ==
    Append(activities, [activitypub_id |-> activitypub_id, actor |-> actor,
                        obj |-> obj, kind |-> kind])

\* INSERT INTO relays (...): the sequence gives the next id.
create_relay(ap_id, inbox) ==
    Append(relays, [id |-> Len(relays), ap_id |-> ap_id, inbox |-> inbox])

\* SELECT * FROM relays WHERE activitypub_id = $1, fetch_one: the id
get_relay_follower_id_by_ap_id(ap_id) ==
    relays[CHOOSE i \in DOMAIN relays :
              /\ relays[i].ap_id = ap_id
              /\ \A j \in DOMAIN relays : relays[j].ap_id = ap_id => i <= j].id

\* INSERT INTO followers (relay_id, follower_id) VALUES (0, follower_id)
add_follower_to_relay(follower_id) ==
    Append(followers, [relay_id |-> 0, follower_id |-> follower_id])

RelayById(id) == relays[CHOOSE i \in DOMAIN relays : relays[i].id = id]

\* followers JOIN relays WHERE relay_id = 0: the followers' relay rows
get_relay_followers ==
    LET edges == SelectSeq(followers, LAMBDA f : f.relay_id = 0)
    IN  [i \in DOMAIN edges |-> RelayById(edges[i].follower_id)]

activity_id(n) == <<Domain, "/activities/">> \o ToDigits(n)

beacon_id(n) == <<Domain, "/beacon/">> \o ToDigits(n)

\* ------------------------------------------------------------ pure helpers
get_latest_value(original, incoming) ==
    IF original # incoming THEN incoming ELSE original

\* image.contains("data:")
IsInline(image) == \E i \in DOMAIN image : image[i] = "data:"

\* DataUrl::parse
DataUrlParses(image) == image = InlineGood

\* ap_id.split("/").last(): what follows the last "/" of {domain}/beacon/{n}
last_segment(ap_id) == SubSeq(ap_id, 3, Len(ap_id))

image_file(ap_id) == <<"images/">> \o last_segment(ap_id) \o <<".png">>

\* A variant of local_image_url that parses the payload before it looks for
\* the file.
local_image_url_parsing_first(ap_id, app_image) ==
    IF ~DataUrlParses(app_image) THEN <<>>
    ELSE <<"https://", Domain, "/">> \o image_file(ap_id)

\* create_local_image: the url returned (<<>>: the empty string of a failure)
\* and the files afterwards.
local_image_url(ap_id, app_image) ==
    IF \E f \in files : f.name = image_file(ap_id) THEN <<"https://", Domain, "/">> \o image_file(ap_id)
    ELSE IF ~DataUrlParses(app_image) THEN <<>>
    ELSE <<"https://", Domain, "/">> \o image_file(ap_id)

local_image_files(ap_id, app_image) ==
    IF (\E f \in files : f.name = image_file(ap_id)) \/ ~DataUrlParses(app_image)
    THEN files
    ELSE files \cup {[name |-> image_file(ap_id), data |-> app_image]}

\* ------------------------------------------------------------- PUT /beacon
Effect(t, v) == [t |-> t, v |-> v]

\* The record of a request that is answered with resp: its locals, and how many
\* requests had started by then.
Answer(st, resp) == [st EXCEPT !.pc = "idle", !.resp = resp, !.last = started]

\* A handler's step to the record st: an answered request is recorded and
\* the handler is idle again.
Step(h, st) ==
    /\ hs' = [hs EXCEPT ![h] = IF st.pc = "idle" THEN Idle ELSE st]
    /\ done' = IF st.pc = "idle" THEN Append(done, st) ELSE done

\* A request is taken by the first idle handler.
FirstIdle(h) ==
    /\ hs[h].pc = "idle"
    /\ h = "h1" \/ hs["h1"].pc # "idle"

\* The record of a request that starts: its place among the requests started
\* and the number of requests answered before it.
Started(kind) ==
    [Idle EXCEPT !.kind = kind, !.ticket = started + 1, !.seen = Len(done)]

\* req_body.image.unwrap_or("#"), adult.unwrap_or(false), tags.unwrap_or("")
image_of(payload) == IF payload.image = NoImage THEN <<"#">> ELSE payload.image

adult_of(payload) == payload.adult = "true"

tags_of(payload) == payload.tags

\* The Origin guard: both urls parse and the hosts differ, www. stripped.
origin_rejected(origin, url) ==
    /\ origin # NoOrigin
    /\ UrlParses(origin) /\ UrlParses(url)
    /\ trim_www(host_str(origin)) # trim_www(host_str(url))

\* Origin guard, then get_system_user.
BeaconStart(h, payload, origin) ==
    /\ FirstIdle(h)
    /\ started < MaxRequests
    /\ started' = started + 1
    /\ LET st == [Started("beacon") EXCEPT !.payload = payload, !.origin = origin]
       IN  IF origin_rejected(origin, payload.url)
           THEN /\ Step(h, Answer(st, 403))
                /\ UNCHANGED failures
           ELSE \/ /\ Step(h, [st EXCEPT !.pc = "apps_count"])
                   /\ UNCHANGED failures
                \/ /\ MayFail
                   /\ failures' = failures + 1
                   /\ Step(h, Answer(st, 500))
    /\ UNCHANGED <<apps, activities, relays, followers, files, outgoing, inbound, sessions, events, now,
                   ms, lock, poisoned, rx, tx_open>>

GetAppsCount(h) ==
    /\ hs[h].pc = "apps_count"
    /\ \/ /\ Step(h, [hs[h] EXCEPT !.pc = "activities_count",
                              !.apps_count = get_apps_count])
          /\ UNCHANGED failures
       \/ /\ MayFail
          /\ failures' = failures + 1
          /\ Step(h, Answer(hs[h], 500))
    /\ UNCHANGED <<apps, activities, relays, followers, files, outgoing, started,
                   inbound, sessions, events, now,
                   ms, lock, poisoned, rx, tx_open>>

GetActivitiesCount(h) ==
    /\ hs[h].pc = "activities_count"
    /\ \/ /\ Step(h, [hs[h] EXCEPT !.pc = "lookup",
                              !.activities_count = get_activities_count])
          /\ UNCHANGED failures
       \/ /\ MayFail
          /\ failures' = failures + 1
          /\ Step(h, Answer(hs[h], 500))
    /\ UNCHANGED <<apps, activities, relays, followers, files, outgoing, started,
                   inbound, sessions, events, now,
                   ms, lock, poisoned, rx, tx_open>>

\* The create path up to create_app: the identity from apps_count and the
\* image saved locally when it is inline.  Yields the handler's record.
enter_create(st) ==
    LET ap_id == beacon_id(st.apps_count)
        image == image_of(st.payload)
        image_url == IF IsInline(image) THEN local_image_url(ap_id, image)
                     ELSE image
        wrote == IsInline(image) /\ local_image_files(ap_id, image) # files
        st1 == [st EXCEPT !.path = "create", !.image_url = image_url,
                          !.effects = IF wrote THEN Append(@, Effect("file", image_file(ap_id)))
                                      ELSE @]
    IN  IF IsInline(image) /\ image_url = <<>> THEN Answer(st1, 400)
        ELSE [st1 EXCEPT !.pc = "create_app"]

enter_create_files(st) ==
    IF IsInline(image_of(st.payload))
    THEN local_image_files(beacon_id(st.apps_count), image_of(st.payload))
    ELSE files

\* A variant of latest_image without the "#" of an image that is not given.
latest_image_without_sentinel(app, payload) ==
    IF app.image = image_of(payload) THEN app.image ELSE image_of(payload)

\* The latest image of a matched row: the stored one unless another one is
\* submitted.
latest_image(app, payload) ==
    IF app.image = image_of(payload) \/ image_of(payload) = <<"#">> THEN app.image
    ELSE image_of(payload)

\* Whether the matched row's image is saved locally: it differs from the
\* submitted one and the latest image is inline.
saves_image(app, payload) ==
    app.image # image_of(payload) /\ IsInline(latest_image(app, payload))

\* The latest value of each field of a matched row; image is the image after
\* it was saved locally (<<>> when that failed).
resolve(app, payload) ==
    LET app_image == latest_image(app, payload)
    IN  [name |-> get_latest_value(app.name, payload.name),
         description |-> get_latest_value(app.description, payload.description),
         active |-> get_latest_value(app.active, payload.active),
         image |-> IF saves_image(app, payload)
                   THEN local_image_url(app.ap_id, app_image)
                   ELSE app_image,
         adult |-> get_latest_value(app.adult, adult_of(payload)),
         tags |-> get_latest_value(app.tags, tags_of(payload))]

resolve_files(app, payload) ==
    IF saves_image(app, payload)
    THEN local_image_files(app.ap_id, latest_image(app, payload))
    ELSE files

\* The early exit: no field has changed.
no_field_changed(app, f) ==
    /\ f.name = app.name
    /\ f.description = app.description
    /\ f.active = app.active
    /\ f.image = app.image
    /\ f.adult = app.adult
    /\ f.tags = app.tags

\* get_app_by_base_url and what follows it up to the next awaited call.
Lookup(h) ==
    /\ hs[h].pc = "lookup"
    /\ LET st == hs[h]
           base_url == IF get_base_url(st.payload.url) = <<>> THEN st.payload.url
                       ELSE get_base_url(st.payload.url)
           app == get_app_by_base_url(base_url)
           f == resolve(app, st.payload)
           nfiles == resolve_files(app, st.payload)
           st1 == [st EXCEPT !.app = app, !.path = "update", !.fields = f,
                             !.effects = IF nfiles # files
                                         THEN Append(@, Effect("file", image_file(app.ap_id)))
                                         ELSE @]
       IN  \/ /\ app # NoApp
              /\ UNCHANGED failures
              /\ files' = nfiles
              /\ Step(h, IF saves_image(app, st.payload) /\ f.image = <<>>
                    THEN Answer(st1, 400)
                    ELSE IF no_field_changed(app, f) THEN Answer(st1, 304)
                    ELSE [st1 EXCEPT !.pc = "update_app"])
           \/ /\ app = NoApp
              /\ UNCHANGED failures
              /\ files' = enter_create_files(st)
              /\ Step(h, enter_create(st))
           \/ /\ MayFail
              /\ failures' = failures + 1
              /\ files' = enter_create_files(st)
              /\ Step(h, enter_create(st))
    /\ UNCHANGED <<apps, activities, relays, followers, outgoing, started, inbound, sessions, events, now,
                   ms, lock, poisoned, rx, tx_open>>

\* update_app; a failure is logged and the handler goes on to the create path.
UpdateApp(h) ==
    /\ hs[h].pc = "update_app"
    /\ LET st == hs[h]
           f == st.fields
           napps == update_app(st.payload.url, f.name, f.description, f.active,
                               f.image, f.adult, f.tags)
       IN  \/ /\ apps' = napps
              /\ Step(h, [hs[h] EXCEPT !.pc = "update_activity",
                                  !.effects = Append(@, Effect("update", st.payload.url))])
              /\ UNCHANGED <<failures, files>>
           \/ /\ MayFail
              /\ failures' = failures + 1
              /\ files' = enter_create_files(st)
              /\ Step(h, enter_create(st))
              /\ UNCHANGED apps
    /\ UNCHANGED <<activities, relays, followers, outgoing, started, inbound, sessions, events, now,
                   ms, lock, poisoned, rx, tx_open>>

\* create_activity of the Update, numbered activities_count + 1.
UpdateActivity(h) ==
    /\ hs[h].pc = "update_activity"
    /\ LET st == hs[h]
           n == st.activities_count + 1
       IN  \/ /\ activities' = create_activity(activity_id(n), <<Domain>>,
                                               st.app.ap_id, "Update")
              /\ Step(h, [hs[h] EXCEPT !.pc = "followers",
                                  !.activity = [kind |-> "Update", n |-> n],
                                  !.effects = Append(@, Effect("ledger", <<"Update">> \o ToDigits(n)))])
              /\ UNCHANGED failures
           \/ /\ MayFail
              /\ failures' = failures + 1
              /\ Step(h, Answer(hs[h], 500))
              /\ UNCHANGED activities
    /\ UNCHANGED <<apps, relays, followers, files, outgoing, started, inbound, sessions, events, now,
                   ms, lock, poisoned, rx, tx_open>>

\* create_app; a failure is logged and the handler goes on to the fan-out.
CreateApp(h) ==
    /\ hs[h].pc = "create_app"
    /\ LET st == hs[h]
           p == st.payload
           n == st.activities_count
       IN  \/ /\ apps' = create_app(beacon_id(st.apps_count), p.url, p.name,
                                    p.description, p.active, st.image_url,
                                    adult_of(p), tags_of(p))
              /\ Step(h, [hs[h] EXCEPT !.pc = "slug", !.slug_i = 1,
                                  !.activity = [kind |-> "Create", n |-> n],
                                  !.effects = Append(@, Effect("insert", beacon_id(st.apps_count)))])
              /\ UNCHANGED failures
           \/ /\ MayFail
              /\ failures' = failures + 1
              /\ Step(h, [hs[h] EXCEPT !.pc = "followers",
                                  !.activity = [kind |-> "Create", n |-> n]])
              /\ UNCHANGED apps
    /\ UNCHANGED <<activities, relays, followers, files, outgoing, started, inbound, sessions, events, now,
                   ms, lock, poisoned, rx, tx_open>>

\* The suffixes rand::random::<u32>() may give the fallback slug.
RandomSuffixes == {<<"7">>}

\* One slug_exists probe of generate_unique_slug: candidate slug_i.  Anything
\* but Ok(false) moves on to the next candidate.
ProbeSlug(h) ==
    /\ hs[h].pc = "slug"
    /\ LET st == hs[h]
           cand == slug_candidate(st.payload.name, st.slug_i)
           next == IF st.slug_i + 1 < SlugProbeEnd
                   THEN {[st EXCEPT !.slug_i = st.slug_i + 1]}
                   ELSE {[st EXCEPT !.pc = "set_slug",
                                    !.slug = generate_slug(st.payload.name) \o <<"-">> \o r] :
                            r \in RandomSuffixes}
       IN  \/ /\ ~slug_exists(cand)
              /\ Step(h, [hs[h] EXCEPT !.pc = "set_slug", !.slug = cand])
              /\ UNCHANGED failures
           \/ /\ slug_exists(cand)
              /\ \E st1 \in next : Step(h, st1)
              /\ UNCHANGED failures
           \/ /\ MayFail
              /\ failures' = failures + 1
              /\ \E st1 \in next : Step(h, st1)
    /\ UNCHANGED <<apps, activities, relays, followers, files, outgoing, started,
                   inbound, sessions, events, now,
                   ms, lock, poisoned, rx, tx_open>>

\* set_app_slug(apps_count + 1, slug); a failure is logged.
SetSlug(h) ==
    /\ hs[h].pc = "set_slug"
    /\ LET st == hs[h]
       IN  \/ /\ apps' = set_app_slug(st.apps_count + 1, st.slug)
              /\ Step(h, [hs[h] EXCEPT !.pc = "followers",
                                  !.effects = Append(@, Effect("slug", st.slug))])
              /\ UNCHANGED failures
           \/ /\ MayFail
              /\ failures' = failures + 1
              /\ Step(h, [hs[h] EXCEPT !.pc = "followers"])
              /\ UNCHANGED apps
    /\ UNCHANGED <<activities, relays, followers, files, outgoing, started, inbound, sessions, events, now,
                   ms, lock, poisoned, rx, tx_open>>

\* get_relay_followers; a failure is logged and gives no recipients.
GetFollowers(h) ==
    /\ hs[h].pc = "followers"
    /\ LET fs == get_relay_followers
           inboxes == [i \in DOMAIN fs |-> fs[i].inbox]
       IN  \/ /\ Step(h, [hs[h] EXCEPT !.pc = "send", !.recipients = inboxes,
                                  !.inboxes = inboxes])
              /\ UNCHANGED failures
           \/ /\ MayFail
              /\ failures' = failures + 1
              /\ Step(h, [hs[h] EXCEPT !.pc = "send", !.recipients = <<>>,
                                  !.inboxes = inboxes])
    /\ UNCHANGED <<apps, activities, relays, followers, files, outgoing, started,
                   inbound, sessions, events, now,
                   ms, lock, poisoned, rx, tx_open>>

\* DbRelay::send without the queue: sign_and_send per recipient, in order; the
\* first failure returns.  The inboxes a delivery was attempted to, when the
\* first k deliveries succeed and the next one (if any) fails.
send_attempts(recipients, k) ==
    SubSeq(recipients, 1, IF k < Len(recipients) THEN k + 1 ELSE k)

\* A variant of Send in which a failed delivery fails the request.
Send_propagating(h) ==
    /\ hs[h].pc = "send"
    /\ hs[h].kind = "beacon"
    /\ \E k \in 0..Len(hs[h].recipients) :
          /\ IF k < Len(hs[h].recipients)
             THEN MayFail /\ failures' = failures + 1
             ELSE UNCHANGED failures
          /\ Step(h, Answer([hs[h] EXCEPT !.attempts = send_attempts(hs[h].recipients, k),
                                          !.delivered = k],
                       IF k < Len(hs[h].recipients) THEN 500 ELSE 200))
    /\ outgoing' = Append(outgoing, hs[h].activity)
    /\ UNCHANGED <<apps, activities, relays, followers, files, started, inbound, sessions, events, now,
                   ms, lock, poisoned, rx, tx_open>>

\* system_user.send(...) of the beacon handler: its error is logged, 200.
\* delivered is the number of deliveries that succeeded.
Send(h) ==
    /\ hs[h].pc = "send"
    /\ hs[h].kind = "beacon"
    /\ \E k \in 0..Len(hs[h].recipients) :
          /\ IF k < Len(hs[h].recipients)
             THEN MayFail /\ failures' = failures + 1
             ELSE UNCHANGED failures
          /\ Step(h, Answer([hs[h] EXCEPT !.attempts = send_attempts(hs[h].recipients, k),
                                          !.delivered = k],
                       200))
    /\ outgoing' = Append(outgoing, hs[h].activity)
    /\ UNCHANGED <<apps, activities, relays, followers, files, started, inbound, sessions, events, now,
                   ms, lock, poisoned, rx, tx_open>>

\* ------------------------------------------------------------ admin follow
peer_id(peer) == <<peer>>

peer_inbox(peer) == <<peer, "/inbox">>

\* POST /admin/follow: webfinger_resolve_actor, whose failure returns.
FollowStart(h, peer) ==
    /\ FirstIdle(h)
    /\ started < MaxRequests
    /\ started' = started + 1
    /\ LET st == [Started("follow") EXCEPT !.path = "follow",
                              !.recipients = <<peer_inbox(peer)>>,
                              !.inboxes = <<peer_inbox(peer)>>]
       IN  \/ /\ Step(h, [st EXCEPT !.pc = "follow_count"])
              /\ UNCHANGED failures
           \/ /\ MayFail
              /\ failures' = failures + 1
              /\ Step(h, Answer(st, 500))
    /\ UNCHANGED <<apps, activities, relays, followers, files, outgoing, inbound, sessions, events, now,
                   ms, lock, poisoned, rx, tx_open>>

\* DbRelay::follow: get_activities_count (a failure panics: the request dies).
FollowCount(h) ==
    /\ hs[h].pc = "follow_count"
    /\ \/ /\ Step(h, [hs[h] EXCEPT !.pc = "follow_activity",
                              !.activities_count = get_activities_count])
          /\ UNCHANGED failures
       \/ /\ MayFail
          /\ failures' = failures + 1
          /\ Step(h, Answer(hs[h], 500))
    /\ UNCHANGED <<apps, activities, relays, followers, files, outgoing, started,
                   inbound, sessions, events, now,
                   ms, lock, poisoned, rx, tx_open>>

\* DbRelay::follow: create_activity of the Follow, numbered activities_count.
FollowActivity(h) ==
    /\ hs[h].pc = "follow_activity"
    /\ LET st == hs[h]
           n == st.activities_count
       IN  \/ /\ activities' = create_activity(activity_id(n), <<Domain>>,
                                               <<st.recipients[1][1]>>, "Follow")
              /\ Step(h, [hs[h] EXCEPT !.pc = "send",
                                  !.activity = [kind |-> "Follow", n |-> n],
                                  !.effects = Append(@, Effect("ledger", <<"Follow">> \o ToDigits(n)))])
              /\ UNCHANGED failures
           \/ /\ MayFail
              /\ failures' = failures + 1
              /\ Step(h, Answer(hs[h], 500))
              /\ UNCHANGED activities
    /\ UNCHANGED <<apps, relays, followers, files, outgoing, started, inbound, sessions, events, now,
                   ms, lock, poisoned, rx, tx_open>>

\* DbRelay::follow: send to the followed actor's inbox; its error is returned.
FollowSend(h) ==
    /\ hs[h].pc = "send"
    /\ hs[h].kind = "follow"
    /\ \/ /\ Step(h, Answer([hs[h] EXCEPT !.attempts = hs[h].recipients], 200))
          /\ UNCHANGED failures
       \/ /\ MayFail
          /\ failures' = failures + 1
          /\ Step(h, Answer([hs[h] EXCEPT !.attempts = hs[h].recipients], 500))
    /\ outgoing' = Append(outgoing, hs[h].activity)
    /\ UNCHANGED <<apps, activities, relays, followers, files, started, inbound, sessions, events, now,
                   ms, lock, poisoned, rx, tx_open>>

\* ----------------------------------------------------------- inbound Follow
\* Follow::receive: create_relay, create_activity, the follower's id,
\* add_follower_to_relay; the first failing call (stop = 1..3) returns its
\* error and keeps what was written before it.
ReceiveFollow(peer, object, stop) ==
    /\ inbound < MaxInbound
    /\ inbound' = inbound + 1
    /\ IF stop = 0 THEN UNCHANGED failures
       ELSE MayFail /\ failures' = failures + 1
    /\ relays' = IF stop = 1 THEN relays
                 ELSE create_relay(peer_id(peer), peer_inbox(peer))
    /\ activities' = IF stop \in {1, 2} THEN activities
                     ELSE create_activity(<<peer, "/activities/", "0">>,
                                          peer_id(peer), object, "Follow")
    /\ followers' =
          IF stop # 0 THEN followers
          ELSE LET ids == {relays'[i].id : i \in {j \in DOMAIN relays' :
                                                   relays'[j].ap_id = peer_id(peer)}}
               IN  Append(followers,
                          [relay_id |-> 0,
                           follower_id |-> CHOOSE x \in ids : \A y \in ids : x <= y])
    /\ UNCHANGED <<apps, files, hs, done, outgoing, started, sessions, events, now,
                   ms, lock, poisoned, rx, tx_open>>

\* ---------------------------------------------------------------- ownership
\* No handler is serving a request.
Quiet == \A h \in Handlers : hs[h].pc = "idle"

\* The stored row with the id.
RowsWithId(id) == {i \in DOMAIN apps : apps[i].id = id}

\* The answered requests of the ownership and admin endpoints and of the inbox.
OwnerKinds == {"request_verification", "verify", "update_world", "toggle_visible",
               "receive_update"}

OwnerOps == Cardinality({i \in DOMAIN done : done[i].kind \in OwnerKinds})

\* One ownership request at a time, while no PUT /beacon is being served.
OwnerTurn == Quiet /\ OwnerOps < MaxOwnerOps

\* The {slug} segment of /world/{slug}/...: a slug or a number.
Digits == {"0", "1", "2"}

DigitValue(c) == CASE c = "0" -> 0 [] c = "1" -> 1 [] c = "2" -> 2

\* slug.parse::<i32>()
IsNumber(seg) == seg # <<>> /\ \A k \in DOMAIN seg : seg[k] \in Digits

RECURSIVE ParseInt(_)
ParseInt(seg) ==
    IF seg = <<>> THEN 0
    ELSE 10 * ParseInt(SubSeq(seg, 1, Len(seg) - 1)) + DigitValue(seg[Len(seg)])

\* SELECT * FROM apps WHERE id = $1, fetch_one(..).ok()
get_app_by_id(id) ==
    IF RowsWithId(id) = {} THEN NoApp
    ELSE apps[CHOOSE i \in RowsWithId(id) : \A j \in RowsWithId(id) : i <= j]

\* The row with the slug, if any.
get_app_by_slug(slug) ==
    LET hit == {i \in DOMAIN apps : apps[i].slug = slug}
    IN  IF hit = {} THEN NoApp ELSE apps[CHOOSE i \in hit : \A j \in hit : i <= j]

\* "Get app by slug or ID" of the /world/{slug}/... handlers.
world_of(seg) ==
    IF IsNumber(seg) THEN get_app_by_id(ParseInt(seg) + 1) ELSE get_app_by_slug(seg)

\* Stores the code on the row with the id.
set_verification_code(id, code) ==
    [i \in DOMAIN apps |->
        IF apps[i].id = id THEN [apps[i] EXCEPT !.verification_code = code] ELSE apps[i]]

\* Marks the row with the id verified.
mark_app_verified(id) ==
    [i \in DOMAIN apps |->
        IF apps[i].id = id THEN [apps[i] EXCEPT !.verified = TRUE] ELSE apps[i]]

\* Writes the owner's fields on the row with the id.
update_app_details(id, name, description, image, tags, adult) ==
    [i \in DOMAIN apps |->
        IF apps[i].id = id
        THEN [apps[i] EXCEPT !.name = name, !.description = description,
                             !.image = image, !.tags = tags, !.adult = adult]
        ELSE apps[i]]

\* UPDATE apps SET visible = NOT visible WHERE id = $1
toggle_app_visibility(id) ==
    [i \in DOMAIN apps |->
        IF apps[i].id = id THEN [apps[i] EXCEPT !.visible = ~@] ELSE apps[i]]

\* Tokens: the claims, the key that signed them and whether they have expired
\* when presented.  OwnerClaims are app_id and slug.
NoToken == [claims |-> "absent"]

create_owner_token(app_id, slug) ==
    [claims |-> "owner", app_id |-> app_id, slug |-> slug, key |-> Domain,
     expired |-> FALSE]

\* A token of the admin login: no custom claims.
AdminToken == [claims |-> "none", key |-> Domain, expired |-> FALSE]

\* The owner tokens the relay has issued in cookies.
IssuedTokens ==
    {done[i].token : i \in {j \in DOMAIN done : done[j].kind = "verify" /\ done[j].resp = 200}}

\* What a client may present: nothing, an issued token (possibly expired by
\* now), an admin token, or owner claims signed with another key.
PresentedTokens ==
    {NoToken, AdminToken}
    \cup IssuedTokens
    \cup {[t EXCEPT !.expired = TRUE] : t \in IssuedTokens}
    \cup {[create_owner_token(apps[i].id, apps[i].slug) EXCEPT !.key = "other"] :
             i \in {j \in DOMAIN apps : apps[j].id = Len(apps)}}

\* public_key.verify_token::<C>: the signature and the expiry.
verify_token(token) == token.key = Domain /\ ~token.expired

\* A variant of validate_owner_token without the check of the app_id.
validate_owner_token_any_app(token, expected_app_id, relay_fails) ==
    IF token = NoToken THEN 401
    ELSE IF relay_fails THEN 500
    ELSE IF ~(token.key = Domain /\ ~token.expired /\ token.claims = "owner") THEN 401
    ELSE 0

\* validate_owner_token: 0 for Ok, else the status of the error response.
\* relay_fails: get_relay_by_id(0) fails.
validate_owner_token(token, expected_app_id, relay_fails) ==
    IF token = NoToken THEN 401
    ELSE IF relay_fails THEN 500
    ELSE IF ~(verify_token(token) /\ token.claims = "owner") THEN 401
    ELSE IF token.app_id # expected_app_id THEN 401
    ELSE 0

\* validate_admin_token: any claims are accepted (NoCustomClaims).
validate_admin_token(token, relay_fails) ==
    IF token = NoToken THEN 401
    ELSE IF relay_fails THEN 500
    ELSE IF ~verify_token(token) THEN 401
    ELSE 0

\* An injected failure of the call a handler has reached.
Fails(f) == IF f THEN MayFail /\ failures' = failures + 1 ELSE UNCHANGED failures

OwnerFrame == UNCHANGED <<activities, relays, followers, files, hs, outgoing, started,
                          inbound, sessions, events, now,
                   ms, lock, poisoned, rx, tx_open>>

\* generate_verification_code(): 32 random characters of [0-9a-z].
Codes == {<<"k1">>, <<"k2">>}

\* A variant of has_code that never finds the stored code.
has_code_never(app) == FALSE

\* Some(c) if !c.is_empty()
has_code(app) == app.verification_code # NoCode

\* POST /world/{slug}/request-verification
request_world_verification(seg, new_code, fails) ==
    /\ OwnerTurn
    /\ LET app == world_of(seg)
           rec == [kind |-> "request_verification", seg |-> seg, app |-> app,
                   resp |-> 0, code |-> NoCode]
           stored == app # NoApp /\ has_code(app)
       IN  IF app = NoApp
           THEN /\ ~fails
                /\ done' = Append(done, [rec EXCEPT !.resp = 404, !.code = NoCode])
                /\ UNCHANGED <<apps, failures>>
           ELSE IF stored
           THEN /\ ~fails
                /\ done' = Append(done, [rec EXCEPT !.resp = 200,
                                                    !.code = app.verification_code])
                /\ UNCHANGED <<apps, failures>>
           ELSE /\ Fails(fails)
                /\ apps' = IF fails THEN apps ELSE set_verification_code(app.id, new_code)
                /\ done' = Append(done, IF fails
                                        THEN [rec EXCEPT !.resp = 500, !.code = NoCode]
                                        ELSE [rec EXCEPT !.resp = 200, !.code = new_code])
    /\ OwnerFrame

\* What reqwest::get of the Listing's url gives: an error, or a page whose
\* first meta[name="zesty-verify"] is missing or has the content.
Unfetched == [fetch |-> "none"]

\* A variant of code_matches that ignores white space around the content.
code_matches_trimmed(content, verification_code) ==
    SelectSeq(content, LAMBDA c : c # " ") = verification_code

\* Some(code) if code == verification_code
code_matches(content, verification_code) == content = verification_code

Pages ==
    {Unfetched, [fetch |-> "error"], [fetch |-> "ok", tag |-> FALSE]}
    \cup {[fetch |-> "ok", tag |-> TRUE, content |-> c] : c \in {<<"k1">>, <<"k1", " ">>}}

\* POST /world/{slug}/verify.  stop: 1 when mark_app_verified fails, 2 when
\* create_owner_token does.
verify_world_ownership(seg, page, stop) ==
    /\ OwnerTurn
    /\ LET app == world_of(seg)
           rec == [kind |-> "verify", seg |-> seg, app |-> app, page |-> page,
                   token |-> NoToken, fetched |-> FALSE, resp |-> 0]
           matches == /\ page.fetch = "ok"
                      /\ page.tag
                      /\ code_matches(page.content, app.verification_code)
       IN  IF app = NoApp
           THEN /\ stop = 0 /\ page = Unfetched
                /\ done' = Append(done, [rec EXCEPT !.resp = 404])
                /\ UNCHANGED <<apps, failures>>
           ELSE IF ~has_code(app)
           THEN /\ stop = 0 /\ page = Unfetched
                /\ done' = Append(done, [rec EXCEPT !.resp = 400])
                /\ UNCHANGED <<apps, failures>>
           ELSE IF ~matches
           THEN /\ stop = 0 /\ page # Unfetched
                /\ done' = Append(done, [rec EXCEPT !.resp = 400, !.fetched = TRUE])
                /\ UNCHANGED <<apps, failures>>
           ELSE /\ page # Unfetched
                /\ Fails(stop # 0)
                /\ apps' = IF stop = 1 THEN apps ELSE mark_app_verified(app.id)
                /\ done' = Append(done,
                      IF stop # 0 THEN [rec EXCEPT !.resp = 500, !.fetched = TRUE]
                      ELSE [rec EXCEPT !.resp = 200, !.fetched = TRUE,
                                       !.token = create_owner_token(app.id,
                                                    IF app.slug = NoSlug
                                                    THEN ToDigits(app.id) ELSE app.slug)])
    /\ OwnerFrame

\* UpdateWorldPayload: image, tags and adult are optional.
UpdateWorldPayloads ==
    {[name |-> <<"o">>, description |-> <<"e">>, image |-> NoImage, tags |-> "none",
      adult |-> "none"]}

\* POST /world/{slug}/update.  stop: 1 when get_relay_by_id fails, 2 when
\* update_app_details does.
update_world(seg, token, payload, stop) ==
    /\ OwnerTurn
    /\ LET app == world_of(seg)
           rec == [kind |-> "update_world", seg |-> seg, app |-> app, token |-> token,
                   payload |-> payload, resp |-> 0]
           v == IF app = NoApp THEN 404
                ELSE validate_owner_token(token, app.id, stop = 1)
           image == IF payload.image = NoImage THEN app.image ELSE payload.image
           tags == IF payload.tags = "none" THEN app.tags ELSE payload.tags
           adult == IF payload.adult = "none" THEN app.adult ELSE payload.adult = "true"
       IN  IF v # 0
           THEN /\ stop # 2
                /\ stop = 1 => v = 500
                /\ Fails(stop = 1)
                /\ done' = Append(done, [rec EXCEPT !.resp = v])
                /\ UNCHANGED apps
           ELSE /\ stop # 1
                /\ Fails(stop = 2)
                /\ apps' = IF stop = 2 THEN apps
                           ELSE update_app_details(app.id, payload.name,
                                                   payload.description, image, tags, adult)
                /\ done' = Append(done, [rec EXCEPT !.resp = IF stop = 2 THEN 500 ELSE 200])
    /\ OwnerFrame

\* POST /admin/togglevisible.  stop: 1 when get_relay_by_id fails, 2 when
\* toggle_app_visibility does.
admin_toggle_visible(app_id, token, stop) ==
    /\ OwnerTurn
    /\ LET rec == [kind |-> "toggle_visible", app_id |-> app_id, token |-> token,
                   resp |-> 0]
           v == validate_admin_token(token, stop = 1)
       IN  IF v # 0
           THEN /\ stop # 2
                /\ stop = 1 => v = 500
                /\ Fails(stop = 1)
                /\ done' = Append(done, [rec EXCEPT !.resp = v])
                /\ UNCHANGED apps
           ELSE /\ stop # 1
                /\ Fails(stop = 2)
                /\ apps' = IF stop = 2 THEN apps ELSE toggle_app_visibility(app_id)
                /\ done' = Append(done, [rec EXCEPT !.resp = IF stop = 2 THEN 500 ELSE 200])
    /\ OwnerFrame

\* The objects a peer serves for the object of an inbound Update.
RemoteApps ==
    {[ap_id |-> <<"peerA", "/beacon/", "0">>, url |-> U1, name |-> <<"r">>,
      description |-> <<"d">>, image |-> <<>>, adult |-> FALSE, tags |-> <<>>]}

\* Update::receive: the object is fetched, update_app by its url, then
\* create_activity.  stop: 1 when update_app fails, 2 when create_activity does.
ReceiveUpdate(peer, obj, stop) ==
    /\ OwnerTurn
    /\ Fails(stop # 0)
    /\ apps' = IF stop = 1 THEN apps
               ELSE update_app(obj.url, obj.name, obj.description, TRUE, obj.image,
                               obj.adult, obj.tags)
    /\ activities' = IF stop # 0 THEN activities
                     ELSE create_activity(<<peer, "/activities/", "1">>, peer_id(peer),
                                          obj.ap_id, "Update")
    /\ done' = Append(done, [kind |-> "receive_update", obj |-> obj,
                             resp |-> IF stop = 0 THEN 200 ELSE 500])
    /\ UNCHANGED <<relays, followers, files, hs, outgoing, started, inbound, sessions,
                   events, now,
                   ms, lock, poisoned, rx, tx_open>>

\* ----------------------------------------------------------------- presence
\* The session map: a function from the url keys present to their lists of
\* SessionInfo, in insertion order.  now is the server's clock in seconds.
\* Milliseconds an entry stays after its timestamp.
SessionTtl == 5000

\* The clock when the presence specification starts.
StartClock == 10

SessionIds == {"s1", "s2"}
Timestamps == {6000, 10000}
SessionUrls == {U1, U2}

\* SessionPayload
SessionPayloads == [session_id : SessionIds, url : SessionUrls, timestamp : Timestamps]

SessionInfo(payload) == [session_id |-> payload.session_id, timestamp |-> payload.timestamp]

\* sessions.get(url): <<>> when the key is absent.
sessions_of(url) == IF url \in DOMAIN sessions THEN sessions[url] ELSE <<>>

\* A variant of is_new_session that reports every heartbeat as new.
is_new_session_always(payload) == TRUE

\* vec.iter_mut().find(|info| info.session_id == session_id) finds nothing.
is_new_session(payload) ==
    \A k \in DOMAIN sessions_of(payload.url) :
        sessions_of(payload.url)[k].session_id # payload.session_id

\* A variant of heartbeat that appends an entry whether or not one is found.
heartbeat_always_pushing(payload) ==
    [u \in DOMAIN sessions \cup {payload.url} |->
        IF u = payload.url THEN Append(sessions_of(u), SessionInfo(payload))
        ELSE sessions[u]]

\* The write-locked section of update_session_info: the first entry with the
\* session_id gets the timestamp, else the entry is pushed (or the key
\* inserted with it).
heartbeat(payload) ==
    LET list == sessions_of(payload.url)
        hit  == {k \in DOMAIN list : list[k].session_id = payload.session_id}
        first == CHOOSE k \in hit : \A l \in hit : k <= l
    IN  [u \in DOMAIN sessions \cup {payload.url} |->
            IF u # payload.url THEN sessions[u]
            ELSE IF hit = {} THEN Append(list, SessionInfo(payload))
            ELSE [list EXCEPT ![first].timestamp = payload.timestamp]]

\* get_domain(url)
get_domain(url) == host_str(normalize_app_url(url))

\* No handler holds a guard on the session map: a writer can take the lock.
LockFree == \A g \in Handlers : lock[g] = "none"

\* data.sessions.write() and .read(): Err when the lock is poisoned.
lock_result == IF poisoned THEN "Err" ELSE "Ok"

\* A variant of guard that unwraps the lock's result.
guard_unwrapping(result) == IF result = "Ok" THEN "guard" ELSE "panic"

\* match result { Ok(guard) => guard, Err(poisoned) => poisoned.into_inner() }
guard(result) == IF result = "Ok" THEN "guard" ELSE "guard"

\* A writer panicked while it held the lock.
PoisonLock ==
    /\ ~poisoned
    /\ LockFree
    /\ poisoned' = TRUE
    /\ UNCHANGED <<apps, activities, relays, followers, files, hs, done, outgoing, started,
                   failures, inbound, sessions, events, now, ms, lock, rx, tx_open>>

\* A variant of SessionStart that keeps the write guard until the response.
SessionStart_holding_guard(h, payload) ==
    /\ FirstIdle(h)
    /\ started < MaxBeats
    /\ LockFree
    /\ started' = started + 1
    /\ sessions' = heartbeat(payload)
    /\ LET st == [Started("session") EXCEPT !.payload = payload, !.pc = "notify"]
                 @@ [is_new |-> is_new_session(payload),
                     before |-> sessions_of(payload.url),
                     after |-> heartbeat(payload)[payload.url],
                     acquired |-> <<lock_result>>, received |-> now * 1000 + ms]
       IN  /\ Step(h, IF st.is_new THEN st ELSE Answer(st, 200))
           /\ lock' = [lock EXCEPT ![h] = IF st.is_new THEN "write" ELSE "none"]
    /\ UNCHANGED <<apps, activities, relays, followers, files, outgoing, failures, inbound,
                   events, now, ms, poisoned, rx, tx_open>>

\* POST /session up to the end of the locked section: the write guard is
\* taken, the map updated and the guard dropped with the block; a heartbeat
\* that is not new is answered at once.
SessionStart(h, payload) ==
    /\ FirstIdle(h)
    /\ started < MaxBeats
    /\ LockFree
    /\ started' = started + 1
    /\ LET st == [Started("session") EXCEPT !.payload = payload, !.pc = "notify"]
                 @@ [is_new |-> guard(lock_result) = "guard" /\ is_new_session(payload),
                     before |-> sessions_of(payload.url),
                     after |-> IF guard(lock_result) = "guard"
                               THEN heartbeat(payload)[payload.url]
                               ELSE sessions_of(payload.url),
                     acquired |-> <<lock_result>>, received |-> now * 1000 + ms]
       IN  IF guard(lock_result) = "guard"
           THEN /\ sessions' = heartbeat(payload)
                /\ Step(h, IF st.is_new THEN st ELSE Answer(st, 200))
           ELSE /\ sessions' = sessions
                /\ Step(h, Answer([st EXCEPT !.path = "panic"], 500))
    /\ lock' = [lock EXCEPT ![h] = "none"]
    /\ UNCHANGED <<apps, activities, relays, followers, files, outgoing, failures, inbound,
                   events, now, ms, poisoned, rx, tx_open>>

\* The broadcast for a new session: the Listing's name by get_app_by_base_url
\* of the url as sent, else the url's domain, else "an app".
Notify(h) ==
    /\ hs[h].pc = "notify"
    /\ LET url == hs[h].payload.url
           app == get_app_by_base_url(url)
           domain == IF get_domain(url) # <<>> THEN get_domain(url) ELSE <<"an app">>
       IN  \/ /\ events' = Append(events, [app_name |-> IF app # NoApp THEN app.name ELSE domain,
                                           app_url |-> url])
              /\ UNCHANGED failures
           \/ /\ MayFail
              /\ failures' = failures + 1
              /\ events' = Append(events, [app_name |-> domain, app_url |-> url])
    /\ Step(h, Answer(hs[h], 200))
    /\ UNCHANGED <<apps, activities, relays, followers, files, outgoing, started, inbound,
                   sessions, now,
                   ms, lock, poisoned, rx, tx_open>>

\* The width of the model's integers, which stands for the 64 of i64, and the
\* least timestamp a client can send.
IntBits == 16
MinTimestamp == -(2 ^ (IntBits - 1))

\* a - b in the integers of that width (the build without overflow checks).
wrapping_sub(a, b) ==
    ((a - b + 2 ^ (IntBits - 1)) % (2 ^ IntBits)) - 2 ^ (IntBits - 1)

\* The clocks: the milliseconds since the epoch, and what prune_old_sessions
\* reads, unix_timestamp() * 1000.
RealTime == now * 1000 + ms
pruner_clock == now * 1000

\* The retain predicate of prune_old_sessions.
is_retained(e) == wrapping_sub(pruner_clock, e.timestamp) < SessionTtl

\* The map prune_old_sessions leaves: every key stays, with the entries
\* retained.
pruned_sessions ==
    [u \in DOMAIN sessions |-> SelectSeq(sessions[u], is_retained)]

\* prune_old_sessions, when it removes something.
prune_old_sessions ==
    /\ LockFree
    /\ guard(lock_result) = "guard"
    /\ pruned_sessions # sessions
    /\ sessions' = pruned_sessions
    /\ UNCHANGED <<apps, activities, relays, followers, files, hs, done, outgoing, started,
                   failures, inbound, events, now,
                   ms, lock, poisoned, rx, tx_open>>

\* The clock moves on to a later time.
Advance(t) ==
    /\ t > RealTime
    /\ now' = t \div 1000
    /\ ms' = t % 1000
    /\ UNCHANGED <<apps, activities, relays, followers, files, hs, done, outgoing, started,
                   failures, inbound, sessions, events, lock, poisoned, rx, tx_open>>

\* A second passes.
Tick ==
    /\ now < MaxClock
    /\ now' = now + 1
    /\ UNCHANGED <<apps, activities, relays, followers, files, hs, done, outgoing, started,
                   failures, inbound, sessions, events,
                   ms, lock, poisoned, rx, tx_open>>

\* ------------------------------------------------------------------ readers
\* The handlers that read the session map: GET / (index), GET /api/apps and
\* GET /app|world/{id_or_slug}.
ReaderKinds == {"index", "api_apps", "app"}

\* get_base_url(&app.url).unwrap_or_else(|| app.url.clone())
base_of(app) == IF get_base_url(app.url) # <<>> THEN get_base_url(app.url) ELSE app.url

\* The sum of the lengths of the lists under the keys.
RECURSIVE sum_lengths(_, _)
sum_lengths(map, keys) ==
    IF keys = {} THEN 0
    ELSE LET u == CHOOSE x \in keys : TRUE
         IN  Len(map[u]) + sum_lengths(map, keys \ {u})

\* A variant of live_count that counts the list under the Listing's own url.
live_count_by_literal_url(app, map) ==
    sum_lengths(map, {u \in DOMAIN map : u = app.url})

\* The lists under every key whose base url is the Listing's.
live_count(app, map) ==
    sum_lengths(map, {u \in DOMAIN map : get_base_url(u) # <<>> /\ get_base_url(u) = base_of(app)})

total_users_online(map) == sum_lengths(map, DOMAIN map)

\* AppState.debug and AppState.index_hide_apps_with_no_images.
Configs == [debug : {FALSE}, hide : BOOLEAN]

contains_localhost(url) == \E k \in DOMAIN url : url[k] = "localhost"

\* The filters of index and api_get_apps.
displayed(rows, cfg) ==
    SelectSeq(rows, LAMBDA a : /\ cfg.debug \/ ~contains_localhost(a.url)
                               /\ cfg.hide => a.image # <<"#">>
                               /\ a.visible)

\* The rows whose key no earlier row has.
first_by_base(rows) ==
    LET keep == {k \in DOMAIN rows :
                    \A j \in 1..(k - 1) : base_of(rows[j]) # base_of(rows[k])}
    IN  SelectSeq(rows, LAMBDA a : \E k \in keep : rows[k] = a)

host_of(app) == host_str(normalize_app_url(app.url))

first_by_host(rows) ==
    LET keep == {k \in DOMAIN rows :
                    /\ host_of(rows[k]) # <<>>
                    /\ \A j \in 1..(k - 1) : host_of(rows[j]) # host_of(rows[k])}
    IN  SelectSeq(rows, LAMBDA a : \E k \in keep : rows[k] = a)

\* sort_by(|a, b| b.1.cmp(&a.1)): stable, by live count descending.
RECURSIVE insert_by_live_count(_, _)
insert_by_live_count(sorted, x) ==
    IF sorted = <<>> THEN <<x>>
    ELSE IF Head(sorted).live_count >= x.live_count
         THEN <<Head(sorted)>> \o insert_by_live_count(Tail(sorted), x)
         ELSE <<x>> \o sorted

RECURSIVE sort_by_live_count(_)
sort_by_live_count(pairs) ==
    IF pairs = <<>> THEN <<>>
    ELSE insert_by_live_count(sort_by_live_count(SubSeq(pairs, 1, Len(pairs) - 1)),
                              pairs[Len(pairs)])

\* truncate(n)
IndexLimit == 25
ApiLimit == 10

truncate(list, n) == IF Len(list) > n THEN SubSeq(list, 1, n) ELSE list

\* The request up to its storage call: get_all_apps and the filters, or the
\* lookup of the Listing by id or slug.
ReadStart(h, kind, seg, cfg) ==
    /\ FirstIdle(h)
    /\ started < MaxBeats
    /\ started' = started + 1
    /\ LET st == [Started(kind) EXCEPT !.pc = "prune"]
                 @@ [seg |-> seg, rows |-> <<>>, pruned |-> FALSE, pruned_at |-> 0,
                     read_at |-> 0, live |-> <<>>, total |-> 0, shown |-> <<>>,
                     acquired |-> <<>>]
           app == world_of(seg)
       IN  IF kind = "app"
           THEN \/ /\ app # NoApp
                   /\ Step(h, [st EXCEPT !.rows = <<app>>])
                   /\ UNCHANGED failures
                \/ /\ app = NoApp
                   /\ Step(h, Answer([st EXCEPT !.path = "not_found"], 200))
                   /\ UNCHANGED failures
                \/ /\ MayFail
                   /\ failures' = failures + 1
                   /\ Step(h, Answer([st EXCEPT !.path = "not_found"], 200))
           ELSE \/ /\ Step(h, [st EXCEPT !.rows = IF kind = "index"
                                                   THEN first_by_base(displayed(apps, cfg))
                                                   ELSE first_by_host(displayed(apps, cfg))])
                   /\ UNCHANGED failures
                \/ /\ MayFail
                   /\ failures' = failures + 1
                   /\ Step(h, Answer([st EXCEPT !.path = "fail"],
                                     IF kind = "index" THEN 200 ELSE 500))
    /\ UNCHANGED <<apps, activities, relays, followers, files, outgoing, inbound, sessions,
                   events, now, ms, lock, poisoned, rx, tx_open>>

\* A variant of ReaderPrune that goes on to the read without pruning.
ReaderPrune_skipping(h) ==
    /\ hs[h].pc = "prune"
    /\ Step(h, [hs[h] EXCEPT !.pc = "read"])
    /\ UNCHANGED <<apps, activities, relays, followers, files, outgoing, started, failures,
                   inbound, sessions, events, now, ms, lock, poisoned, rx, tx_open>>

\* prune_old_sessions(&data) of a reading handler: the write guard is taken,
\* the lists are pruned and the guard is dropped on return.
ReaderPrune(h) ==
    /\ hs[h].pc = "prune"
    /\ LockFree
    /\ IF guard(lock_result) = "guard"
       THEN /\ sessions' = pruned_sessions
            /\ Step(h, [hs[h] EXCEPT !.pc = "read", !.pruned = TRUE, !.pruned_at = RealTime,
                                     !.acquired = Append(@, lock_result)])
       ELSE /\ sessions' = sessions
            /\ Step(h, Answer([hs[h] EXCEPT !.path = "panic"], 500))
    /\ lock' = [lock EXCEPT ![h] = "none"]
    /\ UNCHANGED <<apps, activities, relays, followers, files, outgoing, started, failures,
                   inbound, events, now, ms, poisoned, rx, tx_open>>

\* data.sessions.read() and the counts: the read guard is taken and kept.
ReaderRead(h) ==
    /\ hs[h].pc = "read"
    /\ \A g \in Handlers : lock[g] # "write"
    /\ LET st == hs[h]
       IN  IF guard(lock_result) = "guard"
           THEN /\ Step(h, [st EXCEPT
                              !.pc = "render",
                              !.read_at = RealTime,
                              !.live = [k \in DOMAIN st.rows |-> live_count(st.rows[k], sessions)],
                              !.total = IF st.kind = "app" THEN 0
                                        ELSE total_users_online(sessions),
                              !.acquired = Append(@, lock_result)])
                /\ lock' = [lock EXCEPT ![h] = "read"]
           ELSE /\ Step(h, Answer([st EXCEPT !.path = "panic"], 500))
                /\ lock' = lock
    /\ UNCHANGED <<apps, activities, relays, followers, files, outgoing, started, failures,
                   inbound, sessions, events, now, ms, poisoned, rx, tx_open>>

\* The response: the Listings by live count, cut to the handler's limit; the
\* read guard is dropped at the end of the handler.
ReaderRender(h) ==
    /\ hs[h].pc = "render"
    /\ LET st == hs[h]
           pairs == [k \in DOMAIN st.rows |->
                        [id |-> st.rows[k].id, live_count |-> st.live[k]]]
           shown == IF st.kind = "app" THEN pairs
                    ELSE truncate(sort_by_live_count(pairs),
                                  IF st.kind = "index" THEN IndexLimit ELSE ApiLimit)
       IN  Step(h, Answer([st EXCEPT !.path = "read", !.shown = shown], 200))
    /\ lock' = [lock EXCEPT ![h] = "none"]
    /\ UNCHANGED <<apps, activities, relays, followers, files, outgoing, started, failures,
                   inbound, sessions, events, now, ms, poisoned, rx, tx_open>>

\* ------------------------------------------------------------------- events
\* GET /events/sessions.  events is the log of what was sent on
\* new_session_tx; the channel retains its last ChannelCapacity entries, and
\* rx.cursor is the place in the log of the subscriber's next event.
oldest_retained ==
    IF Len(events) > ChannelCapacity THEN Len(events) - ChannelCapacity + 1 ELSE 1

\* rx.recv(): Lagged when the next event is no longer retained, the event when
\* there is one, Closed when there is none and the sender is gone, else it
\* waits.
recv_result ==
    IF rx.cursor < oldest_retained THEN "Lagged"
    ELSE IF rx.cursor <= Len(events) THEN "Ok"
    ELSE IF ~tx_open THEN "Closed"
    ELSE "Pending"

EventsFrame == UNCHANGED <<apps, activities, relays, followers, files, hs, done, outgoing,
                           started, failures, inbound, sessions, events, now, ms, lock,
                           poisoned, tx_open>>

\* session_events: subscribe and answer with the stream.
Subscribe ==
    /\ rx.state = "none"
    /\ tx_open
    /\ rx' = [NoSubscriber EXCEPT !.state = "open", !.cursor = Len(events) + 1]
    /\ EventsFrame

\* A variant of Recv in which a Lagged receive ends the stream.
Recv_ending_on_lag ==
    /\ rx.state = "open"
    /\ recv_result # "Pending"
    /\ rx' = CASE recv_result = "Ok" ->
                    [rx EXCEPT !.got = Append(@, events[rx.cursor]), !.cursor = @ + 1]
               [] recv_result = "Lagged" ->
                    [rx EXCEPT !.state = "ended", !.lagged = @ + 1]
               [] recv_result = "Closed" -> [rx EXCEPT !.state = "ended"]
    /\ EventsFrame

\* The recv arm of the stream's loop: an event is yielded, Lagged moves on to
\* the oldest retained event and continues, Closed breaks.
Recv ==
    /\ rx.state = "open"
    /\ recv_result # "Pending"
    /\ rx' = CASE recv_result = "Ok" ->
                    [rx EXCEPT !.got = Append(@, events[rx.cursor]), !.cursor = @ + 1]
               [] recv_result = "Lagged" ->
                    [rx EXCEPT !.cursor = oldest_retained, !.lagged = @ + 1]
               [] recv_result = "Closed" -> [rx EXCEPT !.state = "ended"]
    /\ EventsFrame

\* The interval arm of the stream's loop: a keep-alive comment is yielded.
KeepAlive ==
    /\ rx.state = "open"
    /\ rx.pings < MaxPings
    /\ rx' = [rx EXCEPT !.pings = @ + 1]
    /\ EventsFrame

\* The server stops: AppState and with it new_session_tx are dropped.
CloseSender ==
    /\ tx_open
    /\ Quiet
    /\ tx_open' = FALSE
    /\ UNCHANGED <<apps, activities, relays, followers, files, hs, done, outgoing, started,
                   failures, inbound, sessions, events, now, ms, lock, poisoned, rx>>

\* ------------------------------------------------------------ specification
\* The steps of a PUT /beacon request after its start.
BeaconStep(h) ==
    \/ GetAppsCount(h)
    \/ GetActivitiesCount(h)
    \/ Lookup(h)
    \/ UpdateApp(h)
    \/ UpdateActivity(h)
    \/ CreateApp(h)
    \/ ProbeSlug(h)
    \/ SetSlug(h)
    \/ GetFollowers(h)
    \/ Send(h)

\* The registry: concurrent PUT /beacon requests.
Next ==
    \/ \E h \in Handlers, p \in Payloads : BeaconStart(h, p, NoOrigin)
    \/ \E h \in Handlers : GetAppsCount(h)
    \/ \E h \in Handlers : GetActivitiesCount(h)
    \/ \E h \in Handlers : Lookup(h)
    \/ \E h \in Handlers : UpdateApp(h)
    \/ \E h \in Handlers : UpdateActivity(h)
    \/ \E h \in Handlers : CreateApp(h)
    \/ \E h \in Handlers : ProbeSlug(h)
    \/ \E h \in Handlers : SetSlug(h)
    \/ \E h \in Handlers : GetFollowers(h)
    \/ \E h \in Handlers : Send(h)

Spec == Init /\ [][Next]_vars

\* The Origin guard: PUT /beacon requests that may carry an Origin header.
NextOrigin ==
    \/ \E h \in Handlers, p \in OriginPayloads, o \in Origins : BeaconStart(h, p, o)
    \/ \E h \in Handlers : BeaconStep(h)

SpecOrigin == Init /\ [][NextOrigin]_vars

\* Federation: PUT /beacon requests, admin follows and inbound Follows.
NextFanout ==
    \/ \E h \in Handlers, p \in FanoutPayloads : BeaconStart(h, p, NoOrigin)
    \/ \E h \in Handlers : BeaconStep(h)
    \/ \E h \in Handlers, peer \in FollowPeers : FollowStart(h, peer)
    \/ \E h \in Handlers : FollowCount(h)
    \/ \E h \in Handlers : FollowActivity(h)
    \/ \E h \in Handlers : FollowSend(h)
    \/ \E peer \in Peers, stop \in 0..3 : ReceiveFollow(peer, <<Domain>>, stop)

SpecFanout == Init /\ [][NextFanout]_vars

\* One PUT /beacon request at a time.
NextSeq ==
    \/ \E p \in SeqPayloads : BeaconStart("h1", p, NoOrigin)
    \/ BeaconStep("h1")

SpecSeq == Init /\ [][NextSeq]_vars

\* Ownership: a registry that holds two Listings, as two PUT /beacon requests
\* served one after the other leave them; resubmissions, the /world endpoints,
\* the admin toggle and inbound Updates are served one at a time, one
\* resubmission among them.
OwnerPayloads ==
    [url : {U1}, name : {NameA}, description : {<<"d">>}, active : {TRUE},
     image : {NoImage}, adult : {"none"}, tags : {<<>>}]

Registered(n, url, name, slug) ==
    [id |-> n + 1, ap_id |-> beacon_id(n), url |-> url, name |-> name,
     description |-> <<"d">>, active |-> TRUE, image |-> <<"#">>, adult |-> FALSE,
     tags |-> <<>>, slug |-> slug, visible |-> TRUE, verification_code |-> NoCode,
     verified |-> FALSE]

InitOwner ==
    /\ apps = <<Registered(0, U1, NameB, slug_candidate(NameB, 1)),
                Registered(1, U3, NameB, slug_candidate(NameB, 2))>>
    /\ activities = <<>>
    /\ relays = <<SystemUser>>
    /\ followers = <<>>
    /\ files = {}
    /\ hs = [h \in Handlers |-> Idle]
    /\ done = <<>>
    /\ outgoing = <<>>
    /\ started = MaxRequests - 1
    /\ failures = 0
    /\ inbound = 0
    /\ sessions = <<>>
    /\ events = <<>>
    /\ now = 0
    /\ ms = 0
    /\ lock = [h \in Handlers |-> "none"]
    /\ poisoned = FALSE
    /\ rx = NoSubscriber
    /\ tx_open = TRUE

Segments == {<<"1">>, <<"c", "-", "w">>}

NextOwner ==
    \/ \E p \in OwnerPayloads : BeaconStart("h1", p, NoOrigin)
    \/ BeaconStep("h1")
    \/ \E seg \in Segments, c \in Codes, f \in BOOLEAN :
          request_world_verification(seg, c, f)
    \/ \E seg \in Segments, page \in Pages, stop \in 0..2 :
          verify_world_ownership(seg, page, stop)
    \/ \E seg \in Segments, t \in PresentedTokens, p \in UpdateWorldPayloads,
          stop \in 0..2 : update_world(seg, t, p, stop)
    \/ \E t \in PresentedTokens, stop \in 0..2 : admin_toggle_visible(1, t, stop)
    \/ \E obj \in RemoteApps, stop \in 0..2 : ReceiveUpdate("peerA", obj, stop)

SpecOwner == InitOwner /\ [][NextOwner]_vars


\* Slug allocation: PUT /beacon requests served one at a time, for Listings under
\* separate base urls, on a registry that is empty or holds one Listing
\* created earlier.  NameE has no alphanumeric character.
U6 == <<"https://", "evil.com", "/app">>
U7 == <<"http://", "x.com", "/app">>
NameE == <<"!", " ">>

SlugPayloads ==
    [url : {U1, U6}, name : {NameA, NameB, NameE}, description : {<<"d">>},
     active : {TRUE}, image : {NoImage}, adult : {"none"}, tags : {<<>>}]

InitSlug ==
    /\ apps \in {<<>>} \cup {<<Registered(0, U7, n, slug_candidate(n, 1))>> : n \in {NameB, NameE}}
    /\ activities = <<>>
    /\ relays = <<SystemUser>>
    /\ followers = <<>>
    /\ files = {}
    /\ hs = [h \in Handlers |-> Idle]
    /\ done = <<>>
    /\ outgoing = <<>>
    /\ started = 0
    /\ failures = 0
    /\ inbound = 0
    /\ sessions = <<>>
    /\ events = <<>>
    /\ now = 0
    /\ ms = 0
    /\ lock = [h \in Handlers |-> "none"]
    /\ poisoned = FALSE
    /\ rx = NoSubscriber
    /\ tx_open = TRUE

NextSlug ==
    \/ \E p \in SlugPayloads : BeaconStart("h1", p, NoOrigin)
    \/ BeaconStep("h1")

SpecSlug == InitSlug /\ [][NextSlug]_vars


\* Presence: concurrent POST /session heartbeats, pruning and the clock, on a
\* registry that holds one Listing.
InitPresence ==
    /\ apps = <<Registered(0, U1, NameB, slug_candidate(NameB, 1))>>
    /\ activities = <<>>
    /\ relays = <<SystemUser>>
    /\ followers = <<>>
    /\ files = {}
    /\ hs = [h \in Handlers |-> Idle]
    /\ done = <<>>
    /\ outgoing = <<>>
    /\ started = 0
    /\ failures = 0
    /\ inbound = 0
    /\ sessions = <<>>
    /\ events = <<>>
    /\ now = StartClock
    /\ ms = 0
    /\ lock = [h \in Handlers |-> "none"]
    /\ poisoned = FALSE
    /\ rx = NoSubscriber
    /\ tx_open = TRUE

NextPresence ==
    \/ \E h \in Handlers, p \in SessionPayloads : SessionStart(h, p)
    \/ \E h \in Handlers : Notify(h)
    \/ prune_old_sessions
    \/ Tick

SpecPresence == InitPresence /\ [][NextPresence]_vars


\* Notifications: heartbeats served while the sender lives, one subscriber of
\* GET /events/sessions, and the server's stop.
EventPayloads == [session_id : SessionIds, url : {U1}, timestamp : {6000}]

NextEvents ==
    \/ \E h \in Handlers, p \in EventPayloads : tx_open /\ SessionStart(h, p)
    \/ \E h \in Handlers : Notify(h)
    \/ prune_old_sessions
    \/ Tick
    \/ Subscribe
    \/ Recv
    \/ KeepAlive
    \/ CloseSender

SpecEvents == InitPresence /\ [][NextEvents]_vars

\* The stream is polled while the client is connected, and a request that
\* was started is served.
SpecEventsFair ==
    /\ SpecEvents
    /\ WF_vars(Recv)
    /\ \A h \in Handlers : WF_vars(Notify(h))


\* The inbox: inbound Follows whose object is the local system actor or another
\* actor, and PUT /beacon requests served one at a time.
FollowObjects == {<<Domain>>, peer_id("peerB")}

NextInbox ==
    \/ \E p \in FanoutPayloads : BeaconStart("h1", p, NoOrigin)
    \/ BeaconStep("h1")
    \/ \E peer \in Peers, obj \in FollowObjects, stop \in 0..3 : ReceiveFollow(peer, obj, stop)

SpecInbox == Init /\ [][NextInbox]_vars


\* Live counts: concurrent heartbeats and reading handlers on a registry that
\* holds two Listings, with a clock of millisecond resolution and a lock that
\* may get poisoned.
ReaderBeats ==
    [session_id : {"s1"}, url : SessionUrls, timestamp : {500, MinTimestamp}]

ClockValues == {5500, 6000}

ReadInputs ==
    {<<"index", <<>>, cfg>> : cfg \in Configs}
    \cup {<<"api_apps", <<>>, [debug |-> FALSE, hide |-> FALSE]>>}
    \cup {<<"app", seg, [debug |-> FALSE, hide |-> FALSE]>> : seg \in {<<"0">>, <<"2">>}}

InitReaders ==
    /\ apps = <<Registered(0, U1, NameB, slug_candidate(NameB, 1)),
                Registered(1, U3, NameB, slug_candidate(NameB, 2))>>
    /\ activities = <<>>
    /\ relays = <<SystemUser>>
    /\ followers = <<>>
    /\ files = {}
    /\ hs = [h \in Handlers |-> Idle]
    /\ done = <<>>
    /\ outgoing = <<>>
    /\ started = 0
    /\ failures = 0
    /\ inbound = 0
    /\ sessions = <<>>
    /\ events = <<>>
    /\ now = 0
    /\ ms = 0
    /\ lock = [h \in Handlers |-> "none"]
    /\ poisoned = FALSE
    /\ rx = NoSubscriber
    /\ tx_open = TRUE

NextReaders ==
    \/ \E h \in Handlers, p \in ReaderBeats : SessionStart(h, p)
    \/ \E h \in Handlers : Notify(h)
    \/ \E h \in Handlers, in \in ReadInputs : ReadStart(h, in[1], in[2], in[3])
    \/ \E h \in Handlers : ReaderPrune(h)
    \/ \E h \in Handlers : ReaderRead(h)
    \/ \E h \in Handlers : ReaderRender(h)
    \/ \E t \in ClockValues : Advance(t)

SpecReaders == InitReaders /\ [][NextReaders]_vars

\* Poisoning: heartbeats and reading handlers served one at a time, on a lock
\* that a panicking writer may have poisoned.  The heartbeats carry the
\* client's clock, which may be ahead of the server's.
PoisonBeats == [session_id : SessionIds, url : {U1}, timestamp : {500, 1500}]

PoisonInputs ==
    {<<"index", <<>>, [debug |-> FALSE, hide |-> FALSE]>>,
     <<"api_apps", <<>>, [debug |-> FALSE, hide |-> FALSE]>>,
     <<"app", <<"c", "-", "w">>, [debug |-> FALSE, hide |-> FALSE]>>}

NextPoison ==
    \/ \E p \in PoisonBeats : SessionStart("h1", p)
    \/ Notify("h1")
    \/ \E in \in PoisonInputs : ReadStart("h1", in[1], in[2], in[3])
    \/ ReaderPrune("h1")
    \/ ReaderRead("h1")
    \/ ReaderRender("h1")
    \/ \E t \in ClockValues : Advance(t)
    \/ PoisonLock

SpecPoison == InitReaders /\ [][NextPoison]_vars

\* Worlds by slug: a registry whose first Listing is named "1", as two
\* PUT /beacon requests leave it, with the /world/{slug} endpoints and
\* GET /world/{id_or_slug} served one at a time.
NameD == <<"1">>

InitWorld ==
    /\ apps = <<Registered(0, U1, NameD, slug_candidate(NameD, 1)),
                Registered(1, U3, NameB, slug_candidate(NameB, 1))>>
    /\ activities = <<>>
    /\ relays = <<SystemUser>>
    /\ followers = <<>>
    /\ files = {}
    /\ hs = [h \in Handlers |-> Idle]
    /\ done = <<>>
    /\ outgoing = <<>>
    /\ started = 0
    /\ failures = 0
    /\ inbound = 0
    /\ sessions = <<>>
    /\ events = <<>>
    /\ now = 0
    /\ ms = 0
    /\ lock = [h \in Handlers |-> "none"]
    /\ poisoned = FALSE
    /\ rx = NoSubscriber
    /\ tx_open = TRUE

NextWorld ==
    \/ \E seg \in Segments, c \in Codes, f \in BOOLEAN :
          request_world_verification(seg, c, f)
    \/ \E seg \in Segments, page \in Pages, stop \in 0..2 :
          verify_world_ownership(seg, page, stop)
    \/ \E seg \in Segments, t \in PresentedTokens, p \in UpdateWorldPayloads,
          stop \in 0..2 : update_world(seg, t, p, stop)
    \/ \E seg \in Segments :
          /\ started < MaxWorldReads
          /\ ReadStart("h1", "app", seg, [debug |-> FALSE, hide |-> FALSE])
    \/ ReaderPrune("h1")
    \/ ReaderRead("h1")
    \/ ReaderRender("h1")

SpecWorld == InitWorld /\ [][NextWorld]_vars

\* Concurrent POST /world/{slug}/request-verification: the handler awaits the
\* lookup of the Listing and then the write of a new code, and another
\* request may run between the two.
\* The lookup, up to the match on the verification_code it read.
RequestVerificationLookup(h, seg, fails) ==
    /\ FirstIdle(h)
    /\ started < MaxRequests
    /\ started' = started + 1
    /\ Fails(fails)
    /\ LET app == IF fails THEN NoApp ELSE world_of(seg)
           st == Started("request_verification")
                 @@ [seg |-> seg, code |-> NoCode]
       IN  IF app = NoApp
           THEN Step(h, Answer(st, 404))
           ELSE IF has_code(app)
           THEN Step(h, Answer([st EXCEPT !.app = app,
                                          !.code = app.verification_code], 200))
           ELSE Step(h, [st EXCEPT !.pc = "set_code", !.app = app])
    /\ UNCHANGED <<apps, activities, relays, followers, files, outgoing, inbound,
                   sessions, events, now, ms, lock, poisoned, rx, tx_open>>

\* generate_verification_code(), set_verification_code and the answer.
RequestVerificationSet(h, new_code, fails) ==
    /\ hs[h].pc = "set_code"
    /\ Fails(fails)
    /\ apps' = IF fails THEN apps ELSE set_verification_code(hs[h].app.id, new_code)
    /\ Step(h, IF fails THEN Answer(hs[h], 500)
               ELSE Answer([hs[h] EXCEPT !.code = new_code], 200))
    /\ UNCHANGED <<activities, relays, followers, files, outgoing, started, inbound,
                   sessions, events, now, ms, lock, poisoned, rx, tx_open>>

NextVerify ==
    \/ \E h \in Handlers, seg \in Segments, f \in BOOLEAN :
          RequestVerificationLookup(h, seg, f)
    \/ \E h \in Handlers, c \in Codes, f \in BOOLEAN :
          RequestVerificationSet(h, c, f)
    \/ \E seg \in Segments, page \in Pages, stop \in 0..2 :
          verify_world_ownership(seg, page, stop)

SpecVerify == InitWorld /\ [][NextVerify]_vars

\* Resubmissions: a registry that holds one Listing, as a PUT /beacon request
\* leaves it, and PUT /beacon requests for its url served one at a time.
UpdatePayloads ==
    [url : {U1}, name : Names, description : {<<"d">>}, active : {TRUE},
     image : {NoImage}, adult : {"none"}, tags : {<<>>}]

InitUpdate ==
    /\ apps = <<Registered(0, U1, NameB, slug_candidate(NameB, 1))>>
    /\ activities = <<>>
    /\ relays = <<SystemUser>>
    /\ followers = <<>>
    /\ files = {}
    /\ hs = [h \in Handlers |-> Idle]
    /\ done = <<>>
    /\ outgoing = <<>>
    /\ started = 0
    /\ failures = 0
    /\ inbound = 0
    /\ sessions = <<>>
    /\ events = <<>>
    /\ now = 0
    /\ ms = 0
    /\ lock = [h \in Handlers |-> "none"]
    /\ poisoned = FALSE
    /\ rx = NoSubscriber
    /\ tx_open = TRUE

NextUpdate ==
    \/ \E p \in UpdatePayloads : BeaconStart("h1", p, NoOrigin)
    \/ BeaconStep("h1")

SpecUpdate == InitUpdate /\ [][NextUpdate]_vars

\* ------------------------------------------------------------------ claims
Beacons == {i \in DOMAIN done : done[i].kind = "beacon"}

\* The effects of a request of one kind.
EffectsOf(r, t) == SelectSeq(r.effects, LAMBDA e : e.t = t)

\* The outcomes of PUT /beacon.
Created(r) == r.path = "create" /\ r.resp = 200 /\ EffectsOf(r, "insert") # <<>>
Updated(r) == r.path = "update" /\ r.resp = 200
Unchanged(r) == r.resp = 304

\* The request overlapped no other request.
Alone(r) == r.seen = r.ticket - 1 /\ r.last <= r.ticket

\* C1: in every reachable state there is at most one Listing per base_url.
C1_OneListingPerBaseUrl ==
    \A i, j \in DOMAIN apps :
        get_base_url(apps[i].url) = get_base_url(apps[j].url) => i = j

\* C2: a submission that yielded Created and is submitted again right after,
\* with no other operation in between and no failure, yields Unchanged, and the
\* number of Listings has grown by exactly one.
C2_CreatedThenUnchanged ==
    \A i \in Beacons :
        (/\ i + 1 \in Beacons
         /\ done[i + 1].payload = done[i].payload
         /\ Created(done[i])
         /\ Alone(done[i]) /\ Alone(done[i + 1])
         /\ failures = 0)
        => /\ Unchanged(done[i + 1])
           /\ Len(apps) = done[i].apps_count + 1

\* C3: a submission is matched only to a Listing whose base_url is its own.
C3_MatchHasEqualBaseUrl ==
    \A i \in Beacons :
        done[i].app # NoApp
        => get_base_url(done[i].app.url) = get_base_url(done[i].payload.url)

\* C4: right after an Updated outcome, the matched Listing's stored row holds
\* the resolved values.
C4_UpdatedPersists ==
    (Quiet /\ done # <<>> /\ Last(done).kind = "beacon" /\ Updated(Last(done))
     /\ Alone(Last(done)) /\ failures = 0)
    => \A i \in RowsWithId(Last(done).app.id) :
          /\ apps[i].name = Last(done).fields.name
          /\ apps[i].description = Last(done).fields.description
          /\ apps[i].active = Last(done).fields.active
          /\ apps[i].image = Last(done).fields.image
          /\ apps[i].adult = Last(done).fields.adult
          /\ apps[i].tags = Last(done).fields.tags

\* C5: a Created outcome has appended exactly one Activity row, of kind Create,
\* numbered with the ledger row count the request read.
C5_CreatedAppendsCreate ==
    \A i \in Beacons :
        Created(done[i])
        => EffectsOf(done[i], "ledger")
           = <<Effect("ledger", <<"Create">> \o ToDigits(done[i].activities_count))>>

\* C6: the numbers of the outgoing activities are strictly increasing, so none
\* is assigned twice (stated for the runs in which no call has failed).
C6_OutgoingIdsIncrease ==
    failures = 0
    => \A i, j \in DOMAIN outgoing : i < j => outgoing[i].n < outgoing[j].n

\* The inboxes of a sequence of inboxes, and the sequence has each once.
Inboxes(s) == {s[k] : k \in DOMAIN s}
Distinct(s) == \A k, l \in DOMAIN s : s[k] = s[l] => k = l

\* C7: a Created or Updated outcome that read the follower inboxes F (each
\* follower once) attempted exactly one delivery to every inbox of F, whether
\* or not a delivery to another inbox failed.
C7_EveryFollowerAttempted ==
    \A i \in Beacons :
        (/\ done[i].resp = 200
         /\ Inboxes(done[i].recipients) = Inboxes(done[i].inboxes)
         /\ Distinct(done[i].inboxes))
        => \A x \in Inboxes(done[i].inboxes) :
              Cardinality({k \in DOMAIN done[i].attempts : done[i].attempts[k] = x}) = 1

\* The Origin header's host differs from the host of the submitted url, a
\* missing scheme taken as https:// and a leading www. ignored.
OriginDiffers(origin, url) ==
    /\ origin # NoOrigin
    /\ trim_www(host_str(origin)) # trim_www(host_str(normalize_app_url(url)))

\* C8: a submission whose Origin host differs from its url's host is answered
\* 403 and has no effect (stated for the runs in which no call has failed).
C8_OriginMismatchRejected ==
    failures = 0
    => \A i \in Beacons :
          OriginDiffers(done[i].origin, done[i].payload.url)
          => /\ done[i].resp = 403
             /\ done[i].effects = <<>>
             /\ done[i].attempts = <<>>
             /\ done[i].activity.kind = "none"

\* The submitted fields equal those of the stored row: each submitted field
\* is the stored one, and the image is the stored one or not given.
SubmissionEqualsRow(p, app) ==
    /\ p.name = app.name
    /\ p.description = app.description
    /\ p.active = app.active
    /\ (p.adult = "true") = app.adult
    /\ p.tags = app.tags
    /\ (p.image = NoImage \/ p.image = app.image)

\* The resolved fields of a matched request equal those of the row it read.
ResolvedEqualsRow(r) ==
    /\ r.fields.name = r.app.name
    /\ r.fields.description = r.app.description
    /\ r.fields.active = r.app.active
    /\ r.fields.image = r.app.image
    /\ r.fields.adult = r.app.adult
    /\ r.fields.tags = r.app.tags

\* C9: a resubmission that matched a row and whose resolved fields equal that
\* row (as do those of a submission that repeats the row's fields, with the
\* row's image or none) is answered 304, and a request answered 304 has written
\* no row and no file, appended nothing to the ledger and attempted no delivery.
C9_UnchangedChangesNothing ==
    \A i \in Beacons :
        /\ (done[i].app # NoApp /\ done[i].path = "update"
            /\ (\/ ResolvedEqualsRow(done[i])
                \/ SubmissionEqualsRow(done[i].payload, done[i].app)))
           => done[i].resp = 304
        /\ done[i].resp = 304
           => /\ done[i].effects = <<>>
              /\ done[i].attempts = <<>>
              /\ done[i].activity.kind = "none"

\* A resubmission without an image of a row that has one was answered 304.
C9_Witness ==
    \E i \in Beacons :
        /\ done[i].resp = 304
        /\ done[i].app.image = RemoteImage
        /\ done[i].payload.image = NoImage

\* C10: when the append of the Update Activity row has failed, the matched
\* Listing's stored row is the row as it was read.
C10_FailedAppendLeavesRow ==
    (Quiet /\ done # <<>> /\ Last(done).kind = "beacon"
     /\ Last(done).path = "update" /\ Last(done).resp = 500)
    => \A i \in RowsWithId(Last(done).app.id) : apps[i] = Last(done).app

\* The insert of a create-path request failed: create_app was called and no
\* row was inserted.
InsertFailed(r) ==
    r.path = "create" /\ r.activity.kind = "Create" /\ EffectsOf(r, "insert") = <<>>

\* C11: when inserting the Listing row fails on the create path, the request
\* is not answered with success, no slug is assigned and no Create activity is
\* handed to the fan-out.
C11_FailedInsertIsFatal ==
    \A i \in Beacons :
        InsertFailed(done[i])
        => /\ done[i].resp # 200
           /\ EffectsOf(done[i], "slug") = <<>>
           /\ done[i].attempts = <<>>

\* The fan-out of a request failed: a delivery failed, or the read of the
\* followers did.
FanoutFailed(r) ==
    \/ r.delivered < Len(r.recipients)
    \/ Inboxes(r.recipients) # Inboxes(r.inboxes)

\* The request wrote a Listing row (and, on the update path, its ledger row).
Wrote(r) ==
    \/ EffectsOf(r, "insert") # <<>>
    \/ EffectsOf(r, "update") # <<>> /\ EffectsOf(r, "ledger") # <<>>

\* C12: a request that wrote its rows and whose fan-out then failed is
\* answered 200, and the Listing row and the ledger row it wrote are stored.
C12_FanoutFailureKeepsWrite ==
    \A i \in Beacons :
        (done[i].pc = "idle" /\ Wrote(done[i]) /\ FanoutFailed(done[i])
         /\ done[i].activity.kind # "none" /\ done[i].resp # 0)
        => /\ done[i].resp = 200
           /\ EffectsOf(done[i], "insert") # <<>>
              => \E j \in DOMAIN apps : apps[j].ap_id = EffectsOf(done[i], "insert")[1].v
           /\ EffectsOf(done[i], "update") # <<>>
              => /\ RowsWithId(done[i].app.id) # {}
                 /\ \A j \in RowsWithId(done[i].app.id) :
                       /\ apps[j].name = done[i].fields.name
                       /\ apps[j].image = done[i].fields.image
                 /\ \E j \in DOMAIN activities :
                       /\ activities[j].kind = "Update"
                       /\ activities[j].activitypub_id = activity_id(done[i].activity.n)

\* An Updated request one of whose deliveries failed.
C12_Witness ==
    \E i \in Beacons :
        /\ Updated(done[i])
        /\ EffectsOf(done[i], "ledger") # <<>>
        /\ done[i].recipients # <<>>
        /\ done[i].delivered < Len(done[i].recipients)
\* C17: no two Listings have the same identity (stated for the runs in which
\* no call has failed).
C17_IdentitiesDiffer ==
    failures = 0
    => \A i, j \in DOMAIN apps : apps[i].ap_id = apps[j].ap_id => i = j

\* C19: no two Listings have the same slug, and once every request is answered
\* every Listing a request has created has a slug (stated for the runs in which
\* no call has failed).
C19_SlugsUniqueAndPresent ==
    failures = 0
    => /\ \A i, j \in DOMAIN apps :
             (apps[i].slug # NoSlug /\ apps[i].slug = apps[j].slug) => i = j
       /\ Quiet => \A i \in DOMAIN apps : apps[i].slug # NoSlug
\* The request answered by the step, when the step answers one of the kind.
Answers(kind) ==
    /\ Len(done') = Len(done) + 1
    /\ done'[Len(done')].kind = kind

\* C13: POST /world/{B}/update succeeds only with a token whose signature
\* verifies and whose app_id is the id of the Listing B it is presented for;
\* a rejected request leaves every row as it was, and a request that succeeds
\* changes no row but the one the token is for.
C13_TokenOnlyForItsListing ==
    [][Answers("update_world")
       => LET r == done'[Len(done')]
          IN  /\ r.resp = 200
                 => /\ r.token.claims = "owner"
                    /\ r.token.key = Domain /\ ~r.token.expired
                    /\ r.app # NoApp
                    /\ r.token.app_id = r.app.id
                    /\ \A i \in DOMAIN apps :
                          apps'[i] # apps[i] => apps[i].id = r.token.app_id
              /\ r.resp # 200 => apps' = apps]_vars

\* A token the relay issued for one Listing was presented, unexpired, for
\* another Listing and was rejected.
C13_Witness ==
    \E i \in DOMAIN done :
        /\ done[i].kind = "update_world"
        /\ done[i].token \in IssuedTokens
        /\ done[i].app # NoApp
        /\ done[i].token.app_id # done[i].app.id
        /\ done[i].resp = 401

\* The page shows exactly the code stored for the Listing.
ShowsCode(r) ==
    /\ r.app # NoApp
    /\ r.app.verification_code # NoCode
    /\ r.page.fetch = "ok"
    /\ r.page.tag
    /\ r.page.content = r.app.verification_code

\* C14: a Listing becomes Verified, and an owner token is issued, only in a
\* verify request for that Listing whose page shows exactly the stored code;
\* every other verify request is answered with an error, leaves the rows as
\* they were and issues no token, and fetches nothing when no code is stored.
C14_VerifiedOnlyByMatchingCode ==
    [][/\ \A i \in DOMAIN apps :
             apps'[i].verified # apps[i].verified
             => /\ Answers("verify")
                /\ ShowsCode(done'[Len(done')])
                /\ done'[Len(done')].app.id = apps[i].id
                /\ apps'[i].verified
       /\ Answers("verify")
          => LET r == done'[Len(done')]
             IN  /\ (r.resp = 200 \/ r.token # NoToken)
                    => /\ ShowsCode(r)
                       /\ r.resp = 200
                       /\ r.token = create_owner_token(r.app.id,
                                      IF r.app.slug = NoSlug THEN ToDigits(r.app.id)
                                      ELSE r.app.slug)
                       /\ \A i \in RowsWithId(r.app.id) : apps'[i].verified
                 /\ ~ShowsCode(r)
                    => /\ r.resp \in {400, 404}
                       /\ r.token = NoToken
                       /\ apps' = apps
                 /\ (r.app = NoApp \/ r.app.verification_code = NoCode) => ~r.fetched]_vars

\* A verify request succeeded, and another one failed on a page that shows
\* the code followed by a space.
C14_Witness ==
    /\ \E i \in DOMAIN done :
          /\ done[i].kind = "verify" /\ done[i].resp = 200
          /\ \E j \in DOMAIN apps : apps[j].id = done[i].app.id /\ apps[j].verified
    /\ \E i \in DOMAIN done :
          /\ done[i].kind = "verify" /\ done[i].resp = 400
          /\ done[i].fetched
          /\ done[i].page.fetch = "ok" /\ done[i].page.tag

\* The answered request-verification requests.
CodeRequests == {i \in DOMAIN done : done[i].kind = "request_verification"}

\* C15: a request that finds a code stored returns that code; a request that
\* returned a code has it stored on its Listing from then on, so every later
\* request for the Listing returns the same code.
C15_CodeIssuedOnce ==
    /\ \A i \in CodeRequests :
          /\ (done[i].app # NoApp /\ done[i].app.verification_code # NoCode)
             => done[i].resp = 200 /\ done[i].code = done[i].app.verification_code
          /\ done[i].resp = 200
             => /\ done[i].code # NoCode
                /\ \A k \in RowsWithId(done[i].app.id) :
                      apps[k].verification_code = done[i].code
    /\ \A i, j \in CodeRequests :
          (done[i].resp = 200 /\ done[j].resp = 200 /\ done[i].app.id = done[j].app.id)
          => done[i].code = done[j].code

\* Two requests for one Listing were answered, the second one finding the
\* code of the first stored.
C15_Witness ==
    \E i, j \in CodeRequests :
        /\ i < j
        /\ done[i].resp = 200 /\ done[j].resp = 200
        /\ done[i].app.id = done[j].app.id
        /\ done[j].app.verification_code = done[i].code

\* C16: no step changes the identity of a stored Listing.
C16_IdentityNeverChanges ==
    [][\A i \in DOMAIN apps :
          /\ i \in DOMAIN apps'
          /\ apps'[i].ap_id = apps[i].ap_id]_vars

\* A Listing was changed by a resubmission, by its owner or by an inbound
\* Update, and hidden by the admin.
C16_Witness ==
    /\ \E i \in DOMAIN apps : ~apps[i].visible /\ apps[i].name # NameB
    /\ \E i \in DOMAIN done : done[i].kind \in {"beacon", "update_world"} /\ done[i].resp = 200

\* The slug the k-th Listing created under a name is expected to get.
ExpectedSlug(name, k) ==
    LET base == IF \A c \in DOMAIN name : Lower(name[c]) \notin Alnum
                THEN <<"world">> ELSE slugify(name)
    IN  IF k = 1 THEN base ELSE base \o <<"-">> \o ToDigits(k)

\* The Listings created before request i whose names have the base slug: the
\* Listing the registry started with, and those of earlier requests.
CreatedBefore(i, base) ==
    Cardinality({x \in DOMAIN apps : apps[x].url = U7 /\ generate_slug(apps[x].name) = base})
    + Cardinality({j \in Beacons : j < i /\ Created(done[j])
                                     /\ generate_slug(done[j].payload.name) = base})

\* C18: when requests are served one after the other and no storage call
\* fails, the k-th Listing created under a base slug is assigned the base slug
\* for k = 1 and base-k after that, a name that normalises to the empty string
\* has the base slug "world", and the slug is stored on the row the request
\* inserted.
C18_SequentialSlugs ==
    failures = 0
    => \A i \in Beacons :
          Created(done[i])
          => LET r == done[i]
                 k == CreatedBefore(i, generate_slug(r.payload.name)) + 1
                 ident == EffectsOf(r, "insert")[1].v
             IN  /\ EffectsOf(r, "slug") = <<Effect("slug", ExpectedSlug(r.payload.name, k))>>
                 /\ \E x \in DOMAIN apps : apps[x].ap_id = ident
                 /\ \A x \in DOMAIN apps :
                       apps[x].ap_id = ident => apps[x].slug = ExpectedSlug(r.payload.name, k)

\* Two Listings were created after an earlier one, all three under names that
\* normalise to the empty string: world, world-2, world-3.
C18_Witness ==
    /\ failures = 0
    /\ Len(apps) = 3
    /\ \A i \in DOMAIN done : Created(done[i]) /\ done[i].payload.name = NameE
    /\ apps[1].slug = <<"world">>
    /\ apps[2].slug = <<"world", "-", "2">>
    /\ apps[3].slug = <<"world", "-", "3">>

\* The session_ids of a list, in order.
Ids(list) == [k \in DOMAIN list |-> list[k].session_id]

\* A heartbeat takes the session lock, and the record of that heartbeat: it
\* waits to notify when it is new and is answered when it is not.
Beat == started' = started + 1

BeatRecord ==
    IF Len(done') > Len(done) THEN done'[Len(done')]
    ELSE hs'[CHOOSE h \in Handlers : hs'[h] # hs[h]]

\* C20: a heartbeat is a new session exactly when its session_id has no entry
\* in the list under the url as sent; a new one is appended to that list, and
\* one that is not new changes nothing but the timestamp of the entry with
\* its session_id; no list under another url changes.  Under every
\* interleaving of heartbeats, prunes and notifications, no list holds two
\* entries with one session_id.
C20_NewIffAbsent ==
    [][/\ \A u \in DOMAIN sessions' : Distinct(Ids(sessions'[u]))
       /\ Beat
          => LET r == BeatRecord
                 p == r.payload
                 old == IF p.url \in DOMAIN sessions THEN sessions[p.url] ELSE <<>>
                 new == sessions'[p.url]
             IN  /\ r.kind = "session"
                 /\ r.is_new <=> p.session_id \notin Inboxes(Ids(old))
                 /\ r.is_new <=> r.pc = "notify"
                 /\ r.is_new => new = Append(old, [session_id |-> p.session_id,
                                                   timestamp |-> p.timestamp])
                 /\ ~r.is_new
                    => /\ Len(new) = Len(old)
                       /\ \A k \in DOMAIN old :
                             new[k] = IF old[k].session_id = p.session_id
                                      THEN [old[k] EXCEPT !.timestamp = p.timestamp]
                                      ELSE old[k]
                 /\ \A u \in DOMAIN sessions : u # p.url => sessions'[u] = sessions[u]]_vars

\* A heartbeat that started while another request was being served refreshed
\* an entry, next to an entry of another session under the same url.
C20_Witness ==
    \E i \in DOMAIN done :
        /\ done[i].kind = "session"
        /\ ~done[i].is_new
        /\ done[i].after # done[i].before
        /\ Len(done[i].after) = 2
        /\ done[i].seen < done[i].ticket - 1

\* The answered heartbeats, and whether a heartbeat created an entry.
Heartbeats == {i \in DOMAIN done : done[i].kind = "session"}

CreatesEntry(r) == Len(r.after) = Len(r.before) + 1

\* C25: the notifications sent are one for each answered heartbeat that
\* created an entry, under the url it was sent with, and none for a heartbeat
\* that refreshed one; this holds under every interleaving of heartbeats.
C25_OneNotificationPerNewSession ==
    \A u \in SessionUrls :
        Cardinality({k \in DOMAIN events : events[k].app_url = u})
        = Cardinality({i \in Heartbeats : done[i].payload.url = u /\ CreatesEntry(done[i])})

\* Two heartbeats for one absent (url, session_id) overlapped and one
\* notification was sent.
C25_Witness ==
    /\ Len(events) = 1
    /\ \E i, j \in Heartbeats :
          /\ i < j
          /\ done[i].payload.url = done[j].payload.url
          /\ done[i].payload.session_id = done[j].payload.session_id
          /\ done[i].before = <<>> \/ done[j].before = <<>>
          /\ done[j].seen < done[j].ticket - 1 \/ done[i].seen < done[i].ticket - 1

\* C26: when no storage call fails, a notification whose url has the base_url
\* of a Listing carries that Listing's name, whatever the query strings, and
\* the url's domain only when no Listing has the base_url.
C26_NotificationNamesListing ==
    failures = 0
    => \A k \in DOMAIN events :
          LET e == events[k]
              hit == {i \in DOMAIN apps : get_base_url(apps[i].url) = get_base_url(e.app_url)}
          IN  /\ hit # {} => \E i \in hit : e.app_name = apps[i].name
              /\ hit = {} => e.app_name = get_domain(e.app_url)

\* C27: a Lagged receive never ends the stream: the subscriber moves on to the
\* oldest retained event and yields nothing for the missed ones; the stream
\* ends only by a Closed receive, which is when the sender is gone and no
\* event is left; and once the sender is gone an open stream ends.
C27_StreamEndsOnlyWhenClosed ==
    /\ [][rx' # rx /\ rx.state = "open"
          => /\ rx'.lagged > rx.lagged
                => /\ rx'.state = "open"
                   /\ rx'.got = rx.got
                   /\ rx.cursor < rx'.cursor
                   /\ rx'.cursor <= Len(events)
                   /\ Len(events) - rx'.cursor < ChannelCapacity
             /\ rx'.state = "ended" <=> (~tx_open /\ rx.cursor > Len(events)
                                          /\ rx'.pings = rx.pings)]_vars
    /\ (~tx_open /\ rx.state = "open") ~> (rx.state = "ended")

\* A subscriber lagged, received the event sent after the ones it missed, and
\* its stream ended after the sender was dropped.
C27_Witness ==
    /\ rx.state = "ended"
    /\ rx.lagged = 1
    /\ Len(events) = 3
    /\ rx.got = <<events[3]>>

\* C30: every follower of the local system actor, and so every fan-out
\* recipient, is an actor that sent a Follow whose object is the local system
\* actor's identity.
C30_OnlySystemActorFollowed ==
    \A k \in DOMAIN followers :
        /\ followers[k].relay_id = SystemUser.id
        /\ \E a \in DOMAIN activities :
              /\ activities[a].kind = "Follow"
              /\ activities[a].obj = SystemUser.ap_id
              /\ \E i \in DOMAIN relays :
                    /\ relays[i].id = followers[k].follower_id
                    /\ relays[i].ap_id = activities[a].actor

\* A reading handler prunes, and takes the read guard, in this step.
Prunes(h) == hs[h].pc = "prune" /\ hs'[h].pc = "read"
Reads(h) == hs[h].pc = "read" /\ hs'[h].pc = "render"

\* C21: a prune at the clock value now_ms keeps, in every list and in order,
\* exactly the entries with now_ms - last_seen_ms < 5000 and removes the
\* others.
C21_PruneKeepsExactlyFresh ==
    [][\A h \in Handlers :
          Prunes(h)
          => /\ DOMAIN sessions' = DOMAIN sessions
             /\ \A u \in DOMAIN sessions :
                   sessions'[u] = SelectSeq(sessions[u],
                                            LAMBDA e : pruner_clock - e.timestamp < 5000)]_vars

\* C22: after a prune at real time T no list holds an entry stamped t >= 0
\* with T - t >= 5000: such a session is not counted by the read that follows.
C22_StaleAfterFiveSeconds ==
    [][\A h \in Handlers :
          Prunes(h)
          => \A u \in DOMAIN sessions' : \A k \in DOMAIN sessions'[u] :
                sessions'[u][k].timestamp >= 0
                => RealTime - sessions'[u][k].timestamp < 5000]_vars

\* The length of the list under a key when the key has the Listing's base url.
KeyCount(u, app) ==
    IF u \in DOMAIN sessions /\ get_base_url(u) = get_base_url(app.url)
    THEN Len(sessions[u]) ELSE 0

\* C23: the live count a handler reads for a Listing is the sum of the lengths
\* of the lists under every key with the Listing's base url, in the map as
\* pruned by this request; and every key of the map is a url as some
\* heartbeat sent it.
C23_LiveCountMergesByBaseUrl ==
    [][/\ \A h \in Handlers :
             Reads(h)
             => /\ hs[h].pruned
                /\ \A k \in DOMAIN hs[h].rows :
                      hs'[h].live[k] = KeyCount(U1, hs[h].rows[k]) + KeyCount(U2, hs[h].rows[k])
       /\ \A u \in DOMAIN sessions' :
             \/ \E i \in DOMAIN done' : done'[i].kind = "session" /\ done'[i].payload.url = u
             \/ \E h \in Handlers : hs'[h].kind = "session" /\ hs'[h].payload.url = u]_vars

\* GET /app/0 answered a live count of 2 for the Listing under
\* https://x.com/app?s=1 while the map held one entry under that url and one
\* under https://x.com/app?s=2.
C23_Witness ==
    /\ \E i \in DOMAIN done :
          /\ done[i].kind = "app"
          /\ done[i].path = "read"
          /\ done[i].rows[1].url = U1
          /\ done[i].shown = <<[id |-> 1, live_count |-> 2]>>
    /\ DOMAIN sessions = {U1, U2}
    /\ Len(sessions[U1]) = 1 /\ Len(sessions[U2]) = 1

\* C24: a handler takes the read guard on the session map only after it has
\* pruned the map in the same request, and every response with counts comes
\* from such a read.
C24_PruneBeforeRead ==
    [][/\ \A h \in Handlers :
             lock[h] = "none" /\ lock'[h] = "read"
             => hs[h].kind \in ReaderKinds /\ hs[h].pruned
       /\ \A h \in Handlers :
             hs'[h].kind \in ReaderKinds /\ hs'[h].pc = "render" => lock'[h] = "read"
       /\ \A i \in DOMAIN done' :
             done'[i].kind \in ReaderKinds /\ done'[i].path = "read" => done'[i].pruned]_vars

\* The index, GET /api/apps and GET /app/0 were each answered from a read.
C24_Witness ==
    \A kind \in ReaderKinds :
        \E i \in DOMAIN done :
            /\ done[i].kind = kind
            /\ done[i].path = "read"
            /\ Len(done[i].acquired) = 2

\* C29: a handler that holds a guard on the session map is at no storage or
\* network call: it is neither before its lookup nor at the notification's
\* lookup, and only computes its response.
C29_NoIoUnderLock ==
    \A h \in Handlers :
        lock[h] # "none" => hs[h].pc \notin {"idle", "notify", "prune"} /\ hs[h].pc = "render"

\* A handler held the read guard while the other was at the lookup of its
\* notification.
C29_Witness ==
    \E h, g \in Handlers : lock[h] = "read" /\ hs[g].pc = "notify"

\* C28: no request panics or fails at an acquisition of the session lock: a
\* heartbeat that found the lock poisoned updated the map, and a reading
\* handler that found it poisoned pruned, read and answered.
C28_PoisonedLockRecovered ==
    /\ \A h \in Handlers : hs[h].path # "panic"
    /\ \A i \in DOMAIN done :
          /\ done[i].path # "panic"
          /\ done[i].kind = "session"
             => /\ done[i].resp = 200
                /\ \E k \in DOMAIN done[i].after :
                      done[i].after[k] = SessionInfo(done[i].payload)
          /\ done[i].kind \in ReaderKinds /\ done[i].acquired # <<>>
             => done[i].path = "read" /\ done[i].resp = 200

\* After the lock was poisoned a heartbeat created an entry and a handler
\* read the counts.
C28_Witness ==
    /\ poisoned
    /\ \E i \in DOMAIN done :
          done[i].kind = "session" /\ done[i].acquired = <<"Err">> /\ done[i].is_new
    /\ \E i \in DOMAIN done :
          /\ done[i].kind \in ReaderKinds
          /\ done[i].acquired = <<"Err", "Err">>
          /\ done[i].path = "read"
          /\ done[i].total = 1

\* C31: an actor that sent Follows, however many, has one Relay row and one
\* FollowerEdge, and its inbox is once among the fan-out recipients.
C31_OneRelayAndEdgePerFollower ==
    \A peer \in Peers :
        /\ Cardinality({i \in DOMAIN relays : relays[i].ap_id = peer_id(peer)}) <= 1
        /\ Cardinality({k \in DOMAIN followers :
                           \E i \in DOMAIN relays :
                               /\ relays[i].id = followers[k].follower_id
                               /\ relays[i].ap_id = peer_id(peer)}) <= 1
        /\ Cardinality({k \in DOMAIN get_relay_followers :
                           get_relay_followers[k].inbox = peer_inbox(peer)}) <= 1

\* The submitted image is an inline payload that does not decode.
Undecodable(payload) ==
    IsInline(image_of(payload)) /\ ~DataUrlParses(image_of(payload))

\* C32: a PUT /beacon whose image is an inline payload that fails to decode
\* is answered with an error and has written nothing: no Listing inserted or
\* updated, no ledger row, no image file, no activity for the followers.
C32_UndecodableImageFailsWhole ==
    \A k \in DOMAIN done :
        (done[k].kind = "beacon" /\ Undecodable(done[k].payload))
        => /\ done[k].resp >= 400
           /\ done[k].effects = <<>>
           /\ done[k].activity.kind = "none"

\* The record a handler's step leaves: the answered request, or its locals.
After(h) == IF hs'[h].pc = "idle" THEN done'[Len(done')] ELSE hs'[h]

\* The Listing a request in its lookup matches.
Matched(h) ==
    get_app_by_base_url(IF get_base_url(hs[h].payload.url) = <<>> THEN hs[h].payload.url
                        ELSE get_base_url(hs[h].payload.url))

stored_url(app) == <<"https://", Domain, "/">> \o image_file(app.ap_id)

\* C33: a stored image file is never rewritten or removed; and once a matched
\* Listing's file exists, materializing any inline payload for it gives the
\* file's url and writes nothing, so the resubmission of a payload that
\* differs from the Listing in nothing but the inline image is answered 304.
C33_MaterializeIdempotent ==
    [][/\ \A f \in files : f \in files'
       /\ \A h \in Handlers :
             (/\ hs[h].pc = "lookup" /\ hs'[h] # hs[h]
              /\ failures' = failures
              /\ Matched(h) # NoApp
              /\ saves_image(Matched(h), hs[h].payload)
              /\ \E f \in files : f.name = image_file(Matched(h).ap_id))
             => /\ files' = files
                /\ After(h).fields.image = stored_url(Matched(h))
                /\ (/\ Matched(h).image = stored_url(Matched(h))
                    /\ Matched(h).name = hs[h].payload.name
                    /\ Matched(h).description = hs[h].payload.description
                    /\ Matched(h).active = hs[h].payload.active
                    /\ Matched(h).adult = adult_of(hs[h].payload)
                    /\ Matched(h).tags = tags_of(hs[h].payload))
                   => After(h).resp = 304]_vars

\* The inline image that created a Listing was submitted again and answered
\* 304, the stored file being the one the first submission wrote.
C33_Witness ==
    /\ Len(done) = 2
    /\ done[1].resp = 200 /\ done[1].path = "create"
    /\ done[2].resp = 304 /\ done[2].payload = done[1].payload
    /\ done[2].payload.image = InlineGood
    /\ done[2].app.image = stored_url(done[2].app)
    /\ files = {[name |-> image_file(done[2].app.ap_id), data |-> InlineGood]}

\* The visible Listings, and the ids a response shows.
VisibleApps == {i \in DOMAIN apps : apps[i].visible}

ShownIds(shown) == {shown[j].id : j \in DOMAIN shown}

\* C34: the response of GET /api/apps shows visible Listings only, all of
\* them when there are at most 10 and 10 of them otherwise, by non-increasing
\* live count, and no visible Listing it omits has a higher live count than
\* one it shows.
C34_ApiAppsTopTenVisible ==
    [][\A h \in Handlers :
          (hs[h].pc = "render" /\ hs[h].kind = "api_apps" /\ hs'[h] # hs[h])
          => LET shown == After(h).shown
             IN  /\ ShownIds(shown) \subseteq {apps[i].id : i \in VisibleApps}
                 /\ Len(shown) = IF Cardinality(VisibleApps) > ApiLimit THEN ApiLimit
                                 ELSE Cardinality(VisibleApps)
                 /\ \A j \in 1..(Len(shown) - 1) :
                       shown[j].live_count >= shown[j + 1].live_count
                 /\ \A i \in VisibleApps :
                       apps[i].id \notin ShownIds(shown)
                       => \A j \in DOMAIN shown :
                             live_count(apps[i], sessions) <= shown[j].live_count]_vars

\* C35: no admin request is accepted on a token that carries OwnerClaims: an
\* owner token in the relay-admin-token cookie does not toggle visibility.
C35_OwnerTokenIsNotAdmin ==
    \A k \in DOMAIN done :
        (done[k].kind = "toggle_visible" /\ done[k].token # NoToken
         /\ done[k].token.claims = "owner")
        => done[k].resp \notin {0, 200}

\* The base url a request asks for, and whether a Listing has it.
RequestedBase(h) ==
    IF get_base_url(hs[h].payload.url) = <<>> THEN hs[h].payload.url
    ELSE get_base_url(hs[h].payload.url)

HasListing(h) == \E i \in DOMAIN apps : base_of(apps[i]) = RequestedBase(h)

\* The lookup of the existing Listing, or the update of the matched one,
\* fails in this step of the handler.
LookupOrUpdateFails(h) ==
    /\ hs[h].pc \in {"lookup", "update_app"}
    /\ hs'[h] # hs[h]
    /\ failures' = failures + 1

\* C36: when a Listing has the base url and the lookup of the existing
\* Listing or the update of the matched one fails, the request ends there with
\* an error: it does not go on to the create path, and a request whose update
\* failed has inserted no Listing and has no Create to send.
C36_FailedLookupOrUpdateEndsRequest ==
    /\ [][\A h \in Handlers :
             (LookupOrUpdateFails(h) /\ HasListing(h))
             => After(h).pc = "idle" /\ After(h).resp >= 500]_vars
    /\ [](\A k \in DOMAIN done :
             (done[k].kind = "beacon" /\ done[k].app # NoApp)
             => /\ done[k].activity.kind # "Create"
                /\ \A e \in DOMAIN done[k].effects : done[k].effects[e].t # "insert")

\* The heartbeat is the last one answered for its session under its url.
LastBeat(i) ==
    \A j \in Heartbeats :
        (j > i /\ done[j].payload.url = done[i].payload.url)
        => done[j].payload.session_id # done[i].payload.session_id

\* C37: a session is not counted once the staleness window, taken with a
\* second to spare, has passed since the server received its last heartbeat:
\* a prune at that time or later leaves no entry of it, whatever timestamp the
\* heartbeat carried.
C37_StaleFromReceipt ==
    [][\A h \in Handlers :
          Prunes(h)
          => \A i \in Heartbeats :
                (/\ done[i].resp = 200
                 /\ LastBeat(i)
                 /\ RealTime - done[i].received >= SessionTtl + 1000)
                => \A k \in DOMAIN sessions'[done[i].payload.url] :
                      sessions'[done[i].payload.url][k].session_id
                      # done[i].payload.session_id]_vars

\* The requests addressed to /world/{slug}, and the Listing one resolved to.
WorldKinds == {"request_verification", "verify", "update_world", "app"}

Resolved(r) ==
    IF r.kind # "app" THEN r.app
    ELSE IF r.rows = <<>> THEN NoApp ELSE r.rows[1]

\* C38: a request to GET /world/{slug}, request-verification, verify or
\* update that names a Listing's slug resolves to that Listing, whatever the
\* characters of the slug.
C38_SlugResolvesToItsListing ==
    [][Len(done') = Len(done) + 1
       => LET r == done'[Len(done')]
          IN  (r.kind \in WorldKinds /\ (r.kind = "app" => failures' = failures))
              => \A i \in DOMAIN apps :
                    apps[i].slug = r.seg
                    => Resolved(r) # NoApp /\ Resolved(r).id = apps[i].id]_vars

\* The codes answered by POST /world/{slug}/request-verification.
CodeAnswers == {i \in DOMAIN done : done[i].kind = "request_verification"
                                    /\ done[i].resp = 200}

\* C39: whatever the interleaving of the request-verification calls for a
\* Listing without a code, once they are all answered every caller holds the
\* code that is stored on the Listing.
C39_CallersHoldStoredCode ==
    Quiet => \A i \in CodeAnswers :
                \A k \in DOMAIN apps :
                   apps[k].id = done[i].app.id
                   => apps[k].verification_code = done[i].code

\* The row differs from what it was in nothing but the columns update_app sets.
SameButDetails(old, new) ==
    new = [old EXCEPT !.name = new.name, !.description = new.description,
                      !.active = new.active, !.image = new.image,
                      !.adult = new.adult, !.tags = new.tags]

\* C40: the write of a PUT /beacon request on the update path changes only
\* name, description, active, image, adult and tags of the Listing the
\* request matched, and leaves every other row as it was.
C40_UpdateWritesOnlyMatchedRow ==
    [][\A h \in Handlers :
          (hs[h].pc = "update_app" /\ hs'[h].pc = "update_activity")
          => /\ Len(apps') = Len(apps)
             /\ \A i \in DOMAIN apps :
                   /\ SameButDetails(apps[i], apps'[i])
                   /\ apps[i].id # hs[h].app.id => apps'[i] = apps[i]]_vars

====
